---- MODULE Spec2Model ----
(***************************************************************************)
(* Model of the OxidizeBot song player: the playback engine               *)
(* (PlaybackFuture), the queue store (Queue), the client handle           *)
(* (Player / PlayerClient) and the chat `song` command handler.           *)
(*                                                                         *)
(* Option<T> values are modelled as sequences of length 0 (None) or 1     *)
(* (Some).  Durations and instants are whole time units.                  *)
(***************************************************************************)
EXTENDS Integers, Sequences, FiniteSets, TLC

----------------------------------------------------------------------------
(* Bounds of the model *)

\* Instants range over 0..MaxTime.
MaxTime == 2
\* At most MaxCmds commands wait in the command channel.
MaxCmds == 1
\* The environment stops injecting once MaxSidelined entries are sidelined.
MaxSidelined == 1
\* At most MaxQueue items are requested into the queue.
MaxQueue == 2
\* Capacity of the event bus in the model (Bus::new(1024) in the program).
BusCap == 3
\* At most MaxEvents device events wait in the events stream.
MaxEvents == 1
\* At most MaxDetached pop tasks run with their handle dropped.
MaxDetached == 1
\* Where themes nest, the environment stops injecting once MaxNested entries
\* are sidelined.
MaxNested == 2
\* What every user owns in currency at the start.
StartBalance == 1
\* The longest text given to Words, in characters.
MaxLen == 4

\* Configuration of the player (player::Config).
max_queue_length == 1
max_songs_per_user == 1

\* The largest u32 of the model.  u32::MAX is 2^32 - 1 in the program; the
\* integers of the model checker end at 2^31 - 1, and saturation is reached there.
U32Max == 2147483647
\* Milliseconds per time unit of the model (Duration::as_millis).
MsPerUnit == 1000

----------------------------------------------------------------------------
(* Values *)

None == <<>>
Some(x) == <<x>>

Users == {"u1", "u2"}
\* The add_track calls that can be in progress at once.
Clients == {1, 2}
NoUser == None

TrackIds == {"A", "B"}
ThemeIds == {"T1", "T2"}

\* struct Item, restricted to the fields the player logic reads.
Item(track_id, user) == [track_id |-> track_id, user |-> user]

\* Command
CmdSkip == [kind |-> "Skip"]
CmdToggle == [kind |-> "Toggle"]
CmdPause == [kind |-> "Pause"]
CmdPlay == [kind |-> "Play"]
CmdModified == [kind |-> "Modified"]
CmdVolume(v) == [kind |-> "Volume", volume |-> v]
CmdInject(item, offset) == [kind |-> "Inject", item |-> item, offset |-> offset]

\* Event
EvEmpty == [kind |-> "Empty"]
EvPlaying(echo, origin, item) ==
    [kind |-> "Playing", echo |-> echo, origin |-> origin, item |-> item]
EvPausing == [kind |-> "Pausing"]
EvModified == [kind |-> "Modified"]

----------------------------------------------------------------------------
VARIABLES
    \* shared between the engine and the clients
    queue,          \* Queue::queue: the in-memory queue of items
    db,             \* the persisted queue records
    commands,       \* the command channel (mpsc::unbounded)
    bus,            \* events buffered in the bus, oldest first
    readers,        \* number of readers attached to the bus (Player::add_rx)
    volume,         \* shared volume
    current,        \* shared current item
    closed,         \* shared closed flag: None, Some(None), Some(Some(reason))
    \* PlaybackFuture
    paused,
    loaded,         \* Option<Loaded>
    inject,         \* Option<(item, offset)>
    sidelined,      \* VecDeque<(Loaded, Instant)>
    pop_front,      \* Option<PopFrontFuture>: task state and the item it was scheduled for
    fallback_items,
    echo_current_song,
    pc,             \* position of the engine in PlaybackFuture::poll
    not_ready,      \* the local of poll
    \* environment
    player,         \* the audio device behind PlayerInterface
    events,         \* number of device events waiting in the events stream
    detached,       \* pop tasks whose handle was dropped while they were running
    file,           \* the current-song file
    now,            \* Instant::now()
    reqs,           \* the add_track calls in progress
    balance,        \* the currency balance of every user
    words_iter,     \* a Words iterator over the text of a message
    \* observation of the last step
    step,           \* what the last engine step did
    popped,         \* what a pop task removed since the last engine step
    reply,          \* the outcome of the last client call
    canceled,       \* a load was canceled and the engine has not advanced since
    cold            \* no Play was processed and nothing was requested since a paused start

vars == <<queue, db, commands, bus, readers, volume, current, closed, paused, loaded, inject,
          sidelined, pop_front, fallback_items, echo_current_song, pc, not_ready,
          player, events, detached, file, now, reqs, step, popped, reply, canceled, cold,
          balance, words_iter>>

----------------------------------------------------------------------------
(* The engine state threaded through the handlers *)

\* The fields of PlaybackFuture and of the world that its handlers write.
Eng ==
    [paused |-> paused, loaded |-> loaded, inject |-> inject, sidelined |-> sidelined,
     pop_front |-> pop_front, detached |-> detached, player |-> player, bus |-> bus,
     volume |-> volume, current |-> current, file |-> file, panicked |-> FALSE,
     adv |-> None, emitted |-> <<>>, calls |-> <<>>, pops |-> 0]

SetEng(s) ==
    /\ paused' = s.paused
    /\ loaded' = s.loaded
    /\ inject' = s.inject
    /\ sidelined' = s.sidelined
    /\ pop_front' = s.pop_front
    /\ detached' = s.detached
    /\ player' = s.player
    /\ bus' = s.bus
    /\ volume' = s.volume
    /\ current' = s.current
    /\ file' = s.file

----------------------------------------------------------------------------
(* PlayerInterface: the audio device *)

\* PlayerInterface::load(item, offset_ms): the device is asked to load a track.
PlayerLoad(s, item, offset_ms) ==
    [s EXCEPT !.player = [@ EXCEPT !.item = Some(item), !.offset_ms = offset_ms,
                                   !.state = "loaded"],
              !.calls = Append(@, "load")]

PlayerPlay(s) ==
    [s EXCEPT !.player = [@ EXCEPT !.state = "playing"], !.calls = Append(@, "play")]

PlayerPause(s) ==
    [s EXCEPT !.player = [@ EXCEPT !.state = "paused"], !.calls = Append(@, "pause")]

PlayerStop(s) ==
    [s EXCEPT !.player = [@ EXCEPT !.state = "stopped"], !.calls = Append(@, "stop")]

\* PlayerInterface::volume(Some(v as f32 / 100)): the gain as a fraction.
PlayerVolume(s, v) ==
    [s EXCEPT !.player = [@ EXCEPT !.volume = [num |-> v, den |-> 100]],
              !.calls = Append(@, "volume")]

\* Duration::as_millis() as u32.  The offsets of the model are far below the
\* 2^32 ms at which the cast truncates.
OffsetMs(offset) == offset * MsPerUnit

----------------------------------------------------------------------------
(* Loaded *)

\* Loaded::new: started_at is the instant of the load, the offset is zero.
\* displaced is an observation, not a field of Loaded: whether this load
\* sidelined the track that was loaded before it.  played is an observation
\* too: the time that passed since the load while the engine was not paused.
LoadedNew(origin, item) ==
    [origin |-> origin, item |-> item, future |-> "pending", started_at |-> now,
     offset |-> 0, displaced |-> FALSE, played |-> 0]

WithOffset(l, offset) == [l EXCEPT !.offset = offset]

----------------------------------------------------------------------------
(* Queue store *)

\* Queue::front
Front(q) == IF q = <<>> THEN None ELSE Some(Head(q))

\* Removal of the first record with the given track id (Backend::remove_song).
RECURSIVE RemoveSong(_, _)
RemoveSong(records, track_id) ==
    IF records = <<>> THEN <<>>
    ELSE IF Head(records).track_id = track_id THEN Tail(records)
    ELSE <<Head(records)>> \o RemoveSong(Tail(records), track_id)

\* Queue::pop_front as seen from the engine: the task is spawned on the thread
\* pool and its handle replaces the one held before.  Dropping the handle of a
\* task that has not run cancels it, unless the task is already past its
\* cancellation check (keep), in which case it still runs, detached.
SchedulePopFront(s, item, keep) ==
    LET old == s.pop_front
        s1 == IF old # None /\ old[1].state = "pending" /\ keep
              THEN [s EXCEPT !.detached = Append(@, old[1].item)]
              ELSE s
    IN [s1 EXCEPT !.pop_front = Some([state |-> "pending", item |-> item]),
                  !.pops = @ + 1]

----------------------------------------------------------------------------
(* PlaybackFuture *)

\* The offset a sidelined entry is resumed at.
ResumeOffset(l, paused_at) ==
    IF paused_at > l.started_at
    THEN (paused_at - l.started_at) + l.offset
    ELSE 0

\* What next_song decided, for the record of the step.
Advance(s, q, src, ret) ==
    Some([src |-> src,
          inject |-> s.inject # None,
          sidelined |-> s.sidelined # <<>>,
          queue |-> q # <<>>,
          paused |-> s.paused,
          loaded |-> s.loaded # None,
          from |-> IF src = "Sidelined" THEN Head(s.sidelined).loaded.offset ELSE 0,
          played |-> IF src = "Sidelined" THEN Head(s.sidelined).loaded.played ELSE 0,
          offset |-> IF ret # None THEN ret[1].offset ELSE 0,
          displaced |-> s.loaded # None /\ s.loaded[1].displaced,
          last |-> IF s.sidelined # <<>>
                   THEN Some([origin |-> s.sidelined[Len(s.sidelined)].loaded.origin,
                              item |-> s.sidelined[Len(s.sidelined)].loaded.item])
                   ELSE None])

\* The guard of the fallback in next_song, without it.
FallbackAlways(s) == TRUE

\* The guard of the fallback in next_song, never passing.
FallbackNever(s) == FALSE

\* The guard of the fallback in next_song.
FallbackAllowed(s) == ~s.paused \/ s.loaded # None

\* The sidelined deque giving its latest entry.
SidelinedPopBack(deque) ==
    [entry |-> deque[Len(deque)], rest |-> SubSeq(deque, 1, Len(deque) - 1)]

\* sidelined.pop_front() on a deque that is not empty
SidelinedPopFront(deque) == [entry |-> Head(deque), rest |-> Tail(deque)]

\* PlaybackFuture::next_song.  q is the queue as read by Queue::front, n the
\* number drawn by the rng, keep the fate of a pop task whose handle is dropped.
\* Returns the new engine state and the Option<Loaded> result.
NextSong(s, q, n, keep) ==
    IF s.inject # None THEN
        LET item == s.inject[1].item
            offset == s.inject[1].offset
            s1 == [s EXCEPT !.inject = None,
                            !.sidelined = IF s.loaded # None
                                          THEN Append(@, [loaded |-> s.loaded[1],
                                                          paused_at |-> now])
                                          ELSE @,
                            !.loaded = None]
            s2 == PlayerLoad(s1, item, OffsetMs(offset))
            ret == Some([WithOffset(LoadedNew("Injected", item), offset)
                            EXCEPT !.displaced = s.loaded # None])
        IN [s |-> [s2 EXCEPT !.adv = Advance(s, q, "Injected", ret)], ret |-> ret]
    ELSE IF s.sidelined # <<>> THEN
        LET popped_front == SidelinedPopFront(s.sidelined)
            l == popped_front.entry.loaded
            paused_at == popped_front.entry.paused_at
            offset == ResumeOffset(l, paused_at)
            s1 == [s EXCEPT !.sidelined = popped_front.rest]
            s2 == PlayerLoad(s1, l.item, OffsetMs(offset))
            ret == Some(WithOffset(LoadedNew(l.origin, l.item), offset))
        IN [s |-> [s2 EXCEPT !.adv = Advance(s, q, "Sidelined", ret)], ret |-> ret]
    ELSE IF Front(q) # None THEN
        LET item == Front(q)[1]
            s1 == SchedulePopFront(s, item, keep)
            s2 == PlayerLoad(s1, item, 0)
            ret == Some(LoadedNew("Queue", item))
        IN [s |-> [s2 EXCEPT !.adv = Advance(s, q, "Queue", ret)], ret |-> ret]
    ELSE IF FallbackAllowed(s) THEN
        IF Len(fallback_items) = 0
        THEN \* gen_range(0, 0) panics
             [s |-> [s EXCEPT !.panicked = TRUE, !.adv = Advance(s, q, "Panic", None)],
              ret |-> None]
        ELSE LET item == fallback_items[n + 1]
                 s1 == PlayerLoad(s, item, 0)
                 ret == Some(LoadedNew("Fallback", item))
             IN [s |-> [s1 EXCEPT !.adv = Advance(s, q, "Fallback", ret)], ret |-> ret]
    ELSE [s |-> [s EXCEPT !.paused = TRUE, !.adv = Advance(s, q, "Nothing", None)],
          ret |-> None]

\* PlaybackFuture::current_song
CurrentSong(s) ==
    IF s.loaded # None
    THEN [s EXCEPT !.file = Some([item |-> s.loaded[1].item, paused |-> s.paused])]
    ELSE [s EXCEPT !.file = None]

\* PlaybackFuture::broadcast: try_broadcast fails on a full bus and the event
\* is only logged.  A bus without readers keeps nothing.
Broadcast(s, event) ==
    LET s1 == [s EXCEPT !.emitted = Append(@, event)]
    IN IF readers > 0 /\ Len(s1.bus) < BusCap THEN [s1 EXCEPT !.bus = Append(@, event)] ELSE s1

\* load_front starting every track it loads paused.
StartLoadedPaused(s, l) == PlayerPause(s)

\* load_front on the track next_song returned: played and announced unless the
\* engine is paused.
StartLoaded(s, l) ==
    IF ~s.paused
    THEN Broadcast(PlayerPlay(s), EvPlaying(echo_current_song, l.origin, l.item))
    ELSE PlayerPause(s)

\* PlaybackFuture::load_front
LoadFront(s, q, n, keep) ==
    LET r == NextSong(s, q, n, keep)
    IN IF r.s.panicked THEN r.s
       ELSE IF r.ret # None THEN
           LET l == r.ret[1]
               s1 == [r.s EXCEPT !.current = Some(l.item)]
               s2 == StartLoaded(s1, l)
               s3 == [s2 EXCEPT !.loaded = Some(l)]
           IN CurrentSong(s3)
       ELSE
           LET s1 == [r.s EXCEPT !.loaded = None, !.current = None]
               s2 == Broadcast(s1, EvEmpty)
               s3 == PlayerStop(s2)
           IN CurrentSong(s3)

\* Toggle taken as Play whatever paused is.
RewriteToPlay(s, command) ==
    IF command.kind = "Toggle" THEN CmdPlay ELSE command

\* The rewrite of Toggle at the head of PlaybackFuture::command.
Rewrite(s, command) ==
    IF command.kind = "Toggle"
    THEN IF s.paused THEN CmdPlay ELSE CmdPause
    ELSE command

\* PlaybackFuture::command
PauseAlways(s) == TRUE

\* The guard of the Pause arm of PlaybackFuture::command.
PauseGuard(s) == ~s.paused

\* The Modified arm loading whether the engine is paused or not.
ModifiedLoadsPaused(s) == s.loaded = None

\* The guard of the load in the Modified arm of PlaybackFuture::command.
ModifiedLoads(s) == ~s.paused /\ s.loaded = None

Command(s, q, command, n, keep) ==
    LET c == Rewrite(s, command)
    IN CASE c.kind = "Skip" -> LoadFront(s, q, n, keep)
         [] c.kind = "Pause" /\ PauseGuard(s) ->
                CurrentSong(Broadcast(PlayerPause([s EXCEPT !.paused = TRUE]), EvPausing))
         [] c.kind = "Play" /\ s.paused ->
                LET s1 == [s EXCEPT !.paused = FALSE]
                IN IF s1.loaded # None
                   THEN CurrentSong(Broadcast(PlayerPlay(s1),
                            EvPlaying(echo_current_song, s1.loaded[1].origin,
                                      s1.loaded[1].item)))
                   ELSE LoadFront(s1, q, n, keep)
         [] c.kind = "Modified" ->
                LET s1 == IF ModifiedLoads(s)
                          THEN LoadFront(s, q, n, keep)
                          ELSE s
                IN IF s1.panicked THEN s1 ELSE Broadcast(s1, EvModified)
         [] c.kind = "Volume" ->
                PlayerVolume([s EXCEPT !.volume = c.volume], c.volume)
         [] c.kind = "Inject" ->
                LoadFront([s EXCEPT !.inject = Some([item |-> c.item, offset |-> c.offset])],
                          q, n, keep)
         [] OTHER -> s

----------------------------------------------------------------------------
(* PlaybackFuture::poll, one step per input examined *)

\* The numbers the rng can draw in next_song.
RngChoices == IF fallback_items = <<>> THEN {0} ELSE 0 .. (Len(fallback_items) - 1)

\* The fates of a pop task whose handle is dropped before it has run.
KeepChoices == IF Len(detached) < MaxDetached THEN BOOLEAN ELSE {FALSE}

\* What an engine step leaves for observation: the input it handled, whether
\* a pop was in progress when it did, whether it found the load canceled and
\* not replaced, what next_song decided, the events it
\* broadcast and the calls it made to the device.
Step(kind, command, s) ==
    [kind |-> kind, command |-> command,
     popping |-> (pop_front # None /\ pop_front[1].state = "pending"),
     after_cancel |-> canceled,
     adv |-> s.adv, emitted |-> s.emitted, calls |-> s.calls, pops |-> s.pops]

IdleStep ==
    [kind |-> "idle", command |-> None, popping |-> FALSE, after_cancel |-> FALSE,
     adv |-> None,
     emitted |-> <<>>, calls |-> <<>>, pops |-> 0]

\* The engine is polled again after it returned NotReady.
Wake ==
    /\ pc = "parked"
    /\ \/ pop_front # None /\ pop_front[1].state = "done"
       \/ loaded # None /\ loaded[1].future # "pending"
       \/ events > 0
       \/ commands # <<>>
    /\ pc' = "pop"
    /\ step' = IdleStep
    /\ popped' = None
    /\ UNCHANGED <<words_iter, balance, canceled, readers, queue, db, commands, bus, volume, current, closed, paused, loaded,
                   inject, sidelined, pop_front, fallback_items, echo_current_song,
                   not_ready, player, events, detached, file, now, reqs, reply,
                   cold>>

\* Top of the loop: a pop in progress is awaited before anything else.
PollPop ==
    /\ pc = "pop"
    /\ IF pop_front # None
       THEN IF pop_front[1].state = "pending"
            THEN /\ pc' = "parked"
                 /\ not_ready' = TRUE
                 /\ UNCHANGED pop_front
            ELSE /\ pop_front' = None
                 /\ not_ready' = FALSE
                 /\ pc' = "loaded"
       ELSE /\ not_ready' = TRUE
            /\ pc' = "loaded"
            /\ UNCHANGED pop_front
    /\ step' = IdleStep
    /\ popped' = None
    /\ UNCHANGED <<words_iter, balance, canceled, readers, queue, db, commands, bus, volume, current, closed, paused, loaded,
                   inject, sidelined, fallback_items, echo_current_song, player, events,
                   detached, file, now, reqs, reply, cold>>

\* The completion signal of the loaded track.
PollLoaded ==
    /\ pc = "loaded"
    /\ popped' = None
    /\ IF loaded # None /\ loaded[1].future = "finished"
       THEN \E n \in RngChoices, keep \in KeepChoices :
               LET s == LoadFront(Eng, queue, n, keep)
               IN /\ SetEng(s)
                  /\ not_ready' = FALSE
                  /\ pc' = IF s.panicked THEN "panicked" ELSE "events"
                  /\ step' = Step("finished", None, s)
                  /\ canceled' = (canceled /\ s.adv = None)
       ELSE IF loaded # None /\ loaded[1].future = "canceled"
       THEN LET s == [Eng EXCEPT !.loaded = None, !.current = None]
            IN /\ SetEng(s)
               /\ pc' = "events"
               /\ step' = Step("canceled", None, s)
               /\ canceled' = TRUE
               /\ UNCHANGED not_ready
       ELSE /\ pc' = "events"
            /\ step' = IdleStep
            /\ UNCHANGED <<canceled, paused, loaded, inject, sidelined, pop_front, detached, player,
                           bus, volume, current, file, not_ready>>
    /\ UNCHANGED <<words_iter, balance, readers, queue, db, commands, closed, fallback_items,
                   echo_current_song, events,
                   now, reqs, reply, cold>>

\* The device events: only traced.
PollEvents ==
    /\ pc = "events"
    /\ IF events > 0
       THEN events' = events - 1 /\ not_ready' = FALSE
       ELSE UNCHANGED <<events, not_ready>>
    /\ pc' = "commands"
    /\ step' = IdleStep
    /\ popped' = None
    /\ UNCHANGED <<words_iter, balance, canceled, readers, queue, db, commands, bus, volume, current, closed, paused, loaded,
                   inject, sidelined, pop_front, fallback_items, echo_current_song,
                   player, detached, file, now, reqs, reply, cold>>

\* A Play that takes effect ends the cold start.
StartsPlayback(command) ==
    Rewrite([paused |-> paused], command).kind = "Play" /\ paused

\* The command channel, then the end of the loop body.
PollCommands ==
    /\ pc = "commands"
    /\ popped' = None
    /\ IF commands # <<>>
       THEN \E n \in RngChoices, keep \in KeepChoices :
               LET s == Command(Eng, queue, Head(commands), n, keep)
               IN /\ SetEng(s)
                  /\ commands' = Tail(commands)
                  /\ not_ready' = FALSE
                  /\ pc' = IF s.panicked THEN "panicked" ELSE "pop"
                  /\ step' = Step("command", Some(Head(commands)), s)
                  /\ canceled' = (canceled /\ s.adv = None)
                  /\ cold' = (cold /\ ~StartsPlayback(Head(commands)))
       ELSE /\ pc' = IF not_ready THEN "parked" ELSE "pop"
            /\ step' = IdleStep
            /\ UNCHANGED <<canceled, paused, loaded, inject, sidelined, pop_front, detached, player,
                           bus, volume, current, file, commands, not_ready, cold>>
    /\ UNCHANGED <<words_iter, balance, readers, queue, db, closed, fallback_items, echo_current_song,
                   events, now,
                   reqs, reply>>

----------------------------------------------------------------------------
(* The thread pool running the pop tasks *)

\* The body of the task of Queue::pop_front, for the task scheduled for `want`.
PopTask(want) ==
    /\ IF queue # <<>>
       THEN /\ queue' = Tail(queue)
            /\ db' = RemoveSong(db, Head(queue).track_id)
            /\ popped' = Some([want |-> want, got |-> Some(Head(queue))])
       ELSE /\ popped' = Some([want |-> want, got |-> None])
            /\ UNCHANGED <<queue, db>>

\* The task whose handle the engine holds runs.
RunPopFront ==
    /\ pop_front # None
    /\ pop_front[1].state = "pending"
    /\ PopTask(pop_front[1].item)
    /\ pop_front' = Some([pop_front[1] EXCEPT !.state = "done"])
    /\ UNCHANGED <<words_iter, balance, canceled, readers, commands, bus, volume, current, closed, paused, loaded, inject,
                   sidelined, fallback_items, echo_current_song, pc, not_ready, player,
                   events, detached, file, now, reqs, step, reply, cold>>

\* A task whose handle was dropped runs.
RunDetached ==
    /\ detached # <<>>
    /\ PopTask(Head(detached))
    /\ detached' = Tail(detached)
    /\ UNCHANGED <<words_iter, balance, canceled, readers, commands, bus, volume, current, closed, paused, loaded, inject,
                   sidelined, pop_front, fallback_items, echo_current_song, pc, not_ready,
                   player, events, file, now, reqs, step, reply, cold>>

----------------------------------------------------------------------------
(* The device, the clock and the bus readers *)

\* The device signals that the loaded track has completed: it was playing it.
DeviceFinish ==
    /\ loaded # None
    /\ loaded[1].future = "pending"
    /\ player.state = "playing"
    /\ loaded' = Some([loaded[1] EXCEPT !.future = "finished"])
    /\ UNCHANGED <<words_iter, balance, canceled, readers, queue, db, commands, bus, volume, current, closed, paused, inject,
                   sidelined, pop_front, fallback_items, echo_current_song, pc, not_ready,
                   player, events, detached, file, now, reqs, step, popped, reply, cold>>

\* The device drops the load: the completion signal is canceled.
DeviceCancel ==
    /\ loaded # None
    /\ loaded[1].future = "pending"
    /\ loaded' = Some([loaded[1] EXCEPT !.future = "canceled"])
    /\ UNCHANGED <<words_iter, balance, canceled, readers, queue, db, commands, bus, volume, current, closed, paused, inject,
                   sidelined, pop_front, fallback_items, echo_current_song, pc, not_ready,
                   player, events, detached, file, now, reqs, step, popped, reply, cold>>

\* The device emits an event.
DeviceEvent ==
    /\ events < MaxEvents
    /\ events' = events + 1
    /\ UNCHANGED <<words_iter, balance, canceled, readers, queue, db, commands, bus, volume, current, closed, paused, loaded,
                   inject, sidelined, pop_front, fallback_items, echo_current_song, pc,
                   not_ready, player, detached, file, now, reqs, step, popped, reply,
                   cold>>

\* Time passes, and the loaded track plays for that long unless the engine is
\* paused.
Tick ==
    /\ now < MaxTime
    /\ now' = now + 1
    /\ loaded' = IF loaded # None /\ ~paused
                 THEN Some([loaded[1] EXCEPT !.played = @ + 1])
                 ELSE loaded
    /\ UNCHANGED <<words_iter, balance, canceled, readers, queue, db, commands, bus, volume, current, closed, paused,
                   inject, sidelined, pop_front, fallback_items, echo_current_song, pc,
                   not_ready, player, events, detached, file, reqs, step, popped, reply,
                   cold>>

\* Player::add_rx: a reader is attached to the bus and sees what is broadcast
\* from then on.
AddRx ==
    /\ readers = 0
    /\ readers' = readers + 1
    /\ UNCHANGED <<words_iter, balance, canceled, bus, queue, db, commands, volume, current, closed, paused,
                   loaded, inject, sidelined, pop_front, fallback_items, echo_current_song,
                   pc, not_ready, player, events, detached, file, now, reqs, step, popped,
                   reply, cold>>

\* A reader takes the oldest event off the bus.
BusRecv ==
    /\ bus # <<>>
    /\ bus' = Tail(bus)
    /\ UNCHANGED <<words_iter, balance, canceled, readers, queue, db, commands, volume, current, closed, paused, loaded, inject,
                   sidelined, pop_front, fallback_items, echo_current_song, pc, not_ready,
                   player, events, detached, file, now, reqs, step, popped, reply, cold>>

----------------------------------------------------------------------------
(* Player and PlayerClient: commands *)

\* The add_track calls in progress.
InFlight == Cardinality({r \in DOMAIN reqs : reqs[r].st # "idle"})

\* Room in the command channel of the model, for the commands of the moderators:
\* there is a client to send them only when run() returned one.
CanSend == Len(commands) < MaxCmds /\ pc # "failed"

\* PlayerClient::send
Send(command) == commands' = Append(commands, command)

\* PlayerClient::modified
Modified == Send(CmdModified)

\* PlayerClient::skip, toggle, play, pause
ClientCommand(command) ==
    /\ CanSend
    /\ Send(command)
    /\ UNCHANGED <<words_iter, balance, canceled, reply, readers, queue, db, bus, volume, current, closed, paused, loaded, inject,
                   sidelined, pop_front, fallback_items, echo_current_song, pc, not_ready,
                   player, events, detached, file, now, reqs, step, popped, cold>>

Skip == ClientCommand(CmdSkip)
Toggle == ClientCommand(CmdToggle)
Play == ClientCommand(CmdPlay)
Pause == ClientCommand(CmdPause)

\* The themes of the configuration: name -> start offset.
Themes == [T1 |-> 1, T2 |-> 0]

\* Inject commands waiting in the channel.
Injecting == Cardinality({i \in DOMAIN commands : commands[i].kind = "Inject"})

\* PlayerClient::play_theme, for a theme that exists and resolves: the item has
\* no user and is injected at the offset of the theme.  The environment stops
\* injecting once max entries are sidelined.
PlayThemeWithin(name, max) ==
    /\ CanSend
    /\ Len(sidelined) + Injecting < max
    /\ Send(CmdInject(Item(name, NoUser), Themes[name]))
    /\ UNCHANGED <<words_iter, balance, canceled, reply, readers, queue, db, bus, volume, current, closed, paused, loaded, inject,
                   sidelined, pop_front, fallback_items, echo_current_song, pc, not_ready,
                   player, events, detached, file, now, reqs, step, popped, cold>>

PlayTheme(name) == PlayThemeWithin(name, MaxSidelined)

Min(a, b) == IF a < b THEN a ELSE b

\* u32::saturating_add and u32::saturating_sub
SaturatingAdd(a, b) == IF b > U32Max - a THEN U32Max ELSE a + b
SaturatingSub(a, b) == IF b > a THEN 0 ELSE a - b

\* The volume command sent as asked, without the clamp.
VolumeCommandRaw(v) == CmdVolume(v)

\* PlayerClient::volume and Player::volume: the command they send.
VolumeCommand(v) == CmdVolume(Min(100, v))

\* PlayerClient::current_volume
CurrentVolume == volume

\* The `volume` branch of Handler::handle: the volume asked of the client for
\* the forms N (diff = "set"), +N ("add") and -N ("sub").
ChatVolume(diff, argument) ==
    LET a == CASE diff = "add" -> SaturatingAdd(CurrentVolume, argument)
               [] diff = "sub" -> SaturatingSub(CurrentVolume, argument)
               [] OTHER -> argument
    IN Min(100, a)

\* The numbers given to the volume requests.
VolumeArgs == {25, 1000, U32Max}

\* Player::volume / PlayerClient::volume called directly.
SetVolume(v) ==
    /\ CanSend
    /\ Send(VolumeCommand(v))
    /\ reply' = [call |-> "volume", diff |-> "direct", argument |-> v, at |-> volume,
                 sent |-> VolumeCommand(v)]
    /\ UNCHANGED <<words_iter, balance, canceled, readers, queue, db, bus, volume, current, closed, paused, loaded, inject,
                   sidelined, pop_front, fallback_items, echo_current_song, pc, not_ready,
                   player, events, detached, file, now, reqs, step, popped, cold>>

\* `!song volume N`, `!song volume +N`, `!song volume -N`
SongVolume(diff, argument) ==
    /\ CanSend
    /\ Send(VolumeCommand(ChatVolume(diff, argument)))
    /\ reply' = [call |-> "volume", diff |-> diff, argument |-> argument, at |-> volume,
                 sent |-> VolumeCommand(ChatVolume(diff, argument))]
    /\ UNCHANGED <<words_iter, balance, canceled, readers, queue, db, bus, volume, current, closed, paused, loaded, inject,
                   sidelined, pop_front, fallback_items, echo_current_song, pc, not_ready,
                   player, events, detached, file, now, reqs, step, popped, cold>>

\* The reasons given to close.
Reasons == {None, Some("r1"), Some("r2")}

\* close keeping the reason of an earlier close.
CloseKeepFirst(reason) ==
    /\ closed' = IF closed # None THEN closed ELSE Some(reason)
    /\ reply' = [call |-> "close", reason |-> reason]
    /\ UNCHANGED <<words_iter, balance, canceled, readers, queue, db, commands, bus, volume, current, paused, loaded, inject,
                   sidelined, pop_front, fallback_items, echo_current_song, pc, not_ready,
                   player, events, detached, file, now, reqs, step, popped, cold>>

\* PlayerClient::close
Close(reason) ==
    /\ closed' = Some(reason)
    /\ reply' = [call |-> "close", reason |-> reason]
    /\ UNCHANGED <<words_iter, balance, canceled, readers, queue, db, commands, bus, volume, current, paused, loaded, inject,
                   sidelined, pop_front, fallback_items, echo_current_song, pc, not_ready,
                   player, events, detached, file, now, reqs, step, popped, cold>>

\* PlayerClient::open
Open ==
    /\ closed' = None
    /\ reply' = [call |-> "open"]
    /\ UNCHANGED <<words_iter, balance, canceled, readers, queue, db, commands, bus, volume, current, paused, loaded, inject,
                   sidelined, pop_front, fallback_items, echo_current_song, pc, not_ready,
                   player, events, detached, file, now, reqs, step, popped, cold>>

----------------------------------------------------------------------------
(* PlayerClient::add_track *)

\* The loop over the queue of the snapshot checks, from index i (0-based) on:
\* the index of the first item with the track id, or the number of items of the
\* user when there is none.
RECURSIVE Scan(_, _, _, _, _)
Scan(q, i, user, track_id, user_count) ==
    IF i >= Len(q) THEN [found |-> None, user_count |-> user_count]
    ELSE IF q[i + 1].track_id = track_id THEN [found |-> Some(i), user_count |-> user_count]
    ELSE Scan(q, i + 1, user, track_id,
              IF q[i + 1].user = Some(user) THEN user_count + 1 ELSE user_count)

\* The snapshot checks with the scan for the track made first.
AdmissionScanFirst(q, cl, user, track_id, is_moderator) ==
    LET len == Len(q)
        scan == Scan(q, 0, user, track_id, 0)
    IN IF scan.found # None
       THEN [ok |-> FALSE, err |-> "QueueContainsTrack", index |-> scan.found[1]]
       ELSE IF ~is_moderator /\ cl # None
       THEN [ok |-> FALSE, err |-> "PlayerClosed", reason |-> cl[1]]
       ELSE IF ~is_moderator /\ len > max_queue_length
       THEN [ok |-> FALSE, err |-> "QueueFull"]
       ELSE IF ~is_moderator /\ scan.user_count >= max_songs_per_user
       THEN [ok |-> FALSE, err |-> "TooManyUserTracks", max |-> max_songs_per_user]
       ELSE [ok |-> TRUE, len |-> len]

\* The snapshot checks of add_track on the queue q and the closed flag cl.
Admission(q, cl, user, track_id, is_moderator) ==
    LET len == Len(q)
        scan == Scan(q, 0, user, track_id, 0)
    IN IF ~is_moderator /\ cl # None
       THEN [ok |-> FALSE, err |-> "PlayerClosed", reason |-> cl[1]]
       ELSE IF ~is_moderator /\ len > max_queue_length
       THEN [ok |-> FALSE, err |-> "QueueFull"]
       ELSE IF scan.found # None
       THEN [ok |-> FALSE, err |-> "QueueContainsTrack", index |-> scan.found[1]]
       ELSE IF ~is_moderator /\ scan.user_count >= max_songs_per_user
       THEN [ok |-> FALSE, err |-> "TooManyUserTracks", max |-> max_songs_per_user]
       ELSE [ok |-> TRUE, len |-> len]

Idle == [st |-> "idle"]

\* add_track is called and its snapshot checks run, under the read lock.
AddTrackCheck(r, user, track_id, is_moderator) ==
    /\ reqs[r].st = "idle"
    /\ Len(queue) + InFlight <= MaxQueue
    /\ LET a == Admission(queue, closed, user, track_id, is_moderator)
       IN /\ reqs' = IF a.ok
                     THEN [reqs EXCEPT ![r] = [st |-> "checked", user |-> user,
                                               track_id |-> track_id, len |-> a.len]]
                     ELSE reqs
          /\ reply' = [call |-> "add_track", stage |-> "check", client |-> r,
                       user |-> user, track_id |-> track_id,
                       is_moderator |-> is_moderator, result |-> a]
          /\ cold' = (cold /\ ~a.ok)
    /\ UNCHANGED <<words_iter, balance, canceled, readers, queue, db, commands, bus, volume, current, closed, paused, loaded,
                   inject, sidelined, pop_front, fallback_items, echo_current_song, pc,
                   not_ready, player, events, detached, file, now, step, popped>>

\* Backend::push_back of the record of the item.
DbPushBack(records, item) ==
    Append(records, [track_id |-> item.track_id, user |-> item.user])

\* add_track pushing the item of a resolved track whether or not its record
\* was written.
AddTrackPushUnwritten(r, resolved, written) ==
    /\ reqs[r].st = "checked"
    /\ LET item == Item(reqs[r].track_id, Some(reqs[r].user))
       IN IF resolved
          THEN /\ db' = IF written THEN DbPushBack(db, item) ELSE db
               /\ queue' = Append(queue, item)
               /\ reqs' = [reqs EXCEPT ![r] = [@ EXCEPT !.st = "pushed"]]
               /\ UNCHANGED reply
          ELSE /\ reqs' = [reqs EXCEPT ![r] = Idle]
               /\ reply' = [call |-> "add_track", stage |-> "push", client |-> r,
                            user |-> reqs[r].user, track_id |-> reqs[r].track_id,
                            result |-> [ok |-> FALSE, err |-> "Error",
                                        from |-> "convert_item"]]
               /\ UNCHANGED <<queue, db>>
    /\ UNCHANGED <<words_iter, balance, canceled, readers, commands, bus, volume, current, closed, paused, loaded, inject,
                   sidelined, pop_front, fallback_items, echo_current_song, pc, not_ready,
                   player, events, detached, file, now, step, popped, cold>>

\* The track is resolved (convert_item) and Queue::push_back runs: the record
\* is written, then the item is pushed.  Either can fail, and the call ends
\* with an error.
AddTrackPush(r, resolved, written) ==
    /\ reqs[r].st = "checked"
    /\ LET item == Item(reqs[r].track_id, Some(reqs[r].user))
       IN IF resolved /\ written
          THEN /\ db' = DbPushBack(db, item)
               /\ queue' = Append(queue, item)
               /\ reqs' = [reqs EXCEPT ![r] = [@ EXCEPT !.st = "pushed"]]
               /\ UNCHANGED reply
          ELSE /\ reqs' = [reqs EXCEPT ![r] = Idle]
               /\ reply' = [call |-> "add_track", stage |-> "push", client |-> r,
                            user |-> reqs[r].user, track_id |-> reqs[r].track_id,
                            result |-> [ok |-> FALSE, err |-> "Error",
                                        from |-> IF resolved THEN "push_back"
                                                 ELSE "convert_item"]]
               /\ UNCHANGED <<queue, db>>
    /\ UNCHANGED <<words_iter, balance, canceled, readers, commands, bus, volume, current, closed, paused, loaded, inject,
                   sidelined, pop_front, fallback_items, echo_current_song, pc, not_ready,
                   player, events, detached, file, now, step, popped, cold>>

\* Modified is sent and add_track returns (len, item).
AddTrackSend(r) ==
    /\ reqs[r].st = "pushed"
    /\ Modified
    /\ reqs' = [reqs EXCEPT ![r] = Idle]
    /\ reply' = [call |-> "add_track", stage |-> "send", client |-> r,
                 user |-> reqs[r].user, track_id |-> reqs[r].track_id,
                 result |-> [ok |-> TRUE, len |-> reqs[r].len]]
    /\ UNCHANGED <<words_iter, balance, canceled, readers, queue, db, bus, volume, current, closed, paused, loaded, inject,
                   sidelined, pop_front, fallback_items, echo_current_song, pc, not_ready,
                   player, events, detached, file, now, step, popped, cold>>

----------------------------------------------------------------------------
(* add_track with a price: resolution, debit and append *)

\* The values min_currency of the provider can have when a request reads it.
MinCurrencies == {0, 1, 2}

\* After the snapshot checks the track is resolved, and the price
\* min_currency, when positive, is debited from the balance of the requester,
\* or the request is refused when the balance does not cover it.
Price(r, resolved, min_currency) ==
    /\ reqs[r].st = "checked"
    /\ LET user == reqs[r].user
           answer(result) == [call |-> "add_track", stage |-> "price", client |-> r,
                              user |-> user, track_id |-> reqs[r].track_id,
                              result |-> result]
       IN IF ~resolved
          THEN /\ reqs' = [reqs EXCEPT ![r] = Idle]
               /\ reply' = answer([ok |-> FALSE, err |-> "Error", from |-> "convert_item"])
               /\ UNCHANGED balance
          ELSE IF min_currency > 0 /\ balance[user] < min_currency
          THEN /\ reqs' = [reqs EXCEPT ![r] = Idle]
               /\ reply' = answer([ok |-> FALSE, err |-> "NotEnoughCurrency",
                                   balance |-> balance[user], required |-> min_currency])
               /\ UNCHANGED balance
          ELSE /\ reqs' = [reqs EXCEPT ![r] = [st |-> "priced", user |-> user,
                                               track_id |-> reqs[r].track_id,
                                               len |-> reqs[r].len, paid |-> min_currency]]
               /\ balance' = [balance EXCEPT ![user] = @ - min_currency]
               /\ UNCHANGED reply
    /\ UNCHANGED <<words_iter, canceled, readers, queue, db, commands, bus, volume, current, closed, paused,
                   loaded, inject, sidelined, pop_front, fallback_items, echo_current_song, pc,
                   not_ready, player, events, detached, file, now, step, popped, cold>>

\* The append of a priced request keeping the debit when the write fails.
AppendPaidKept(r, written) ==
    /\ reqs[r].st = "priced"
    /\ LET item == Item(reqs[r].track_id, Some(reqs[r].user))
       IN IF written
          THEN /\ db' = DbPushBack(db, item)
               /\ queue' = Append(queue, item)
               /\ reqs' = [reqs EXCEPT ![r] = [st |-> "pushed", user |-> reqs[r].user,
                                               track_id |-> reqs[r].track_id,
                                               len |-> reqs[r].len]]
               /\ UNCHANGED reply
          ELSE /\ reqs' = [reqs EXCEPT ![r] = Idle]
               /\ reply' = [call |-> "add_track", stage |-> "push", client |-> r,
                            user |-> reqs[r].user, track_id |-> reqs[r].track_id,
                            result |-> [ok |-> FALSE, err |-> "Error", from |-> "push_back",
                                        paid |-> reqs[r].paid]]
               /\ UNCHANGED <<queue, db>>
    /\ UNCHANGED <<words_iter, balance, canceled, readers, commands, bus, volume, current, closed, paused,
                   loaded, inject, sidelined, pop_front, fallback_items, echo_current_song, pc,
                   not_ready, player, events, detached, file, now, step, popped, cold>>

\* The append of a priced request: the record is written and the item pushed,
\* or the write fails, the debit is refunded and the call ends with an error.
AppendPaid(r, written) ==
    /\ reqs[r].st = "priced"
    /\ LET item == Item(reqs[r].track_id, Some(reqs[r].user))
       IN IF written
          THEN /\ db' = DbPushBack(db, item)
               /\ queue' = Append(queue, item)
               /\ reqs' = [reqs EXCEPT ![r] = [st |-> "pushed", user |-> reqs[r].user,
                                               track_id |-> reqs[r].track_id,
                                               len |-> reqs[r].len]]
               /\ UNCHANGED <<reply, balance>>
          ELSE /\ reqs' = [reqs EXCEPT ![r] = Idle]
               /\ balance' = [balance EXCEPT ![reqs[r].user] = @ + reqs[r].paid]
               /\ reply' = [call |-> "add_track", stage |-> "push", client |-> r,
                            user |-> reqs[r].user, track_id |-> reqs[r].track_id,
                            result |-> [ok |-> FALSE, err |-> "Error", from |-> "push_back",
                                        paid |-> reqs[r].paid]]
               /\ UNCHANGED <<queue, db>>
    /\ UNCHANGED <<words_iter, canceled, readers, commands, bus, volume, current, closed, paused,
                   loaded, inject, sidelined, pop_front, fallback_items, echo_current_song, pc,
                   not_ready, player, events, detached, file, now, step, popped, cold>>

----------------------------------------------------------------------------
(* module::song: the request command *)

\* The variant of track_id::TrackId a track id is.
Provider(track_id) == IF track_id = "B" THEN "YouTube" ELSE "Spotify"

\* The values the settings subscriber-only of the song module, of Spotify and
\* of YouTube can have when a request reads them.
Settings ==
    [subscriber_only : BOOLEAN, spotify_subscriber_only : BOOLEAN,
     youtube_subscriber_only : BOOLEAN]

\* The subscriber gate looking at the global setting only.
SubscriberGateGlobal(track_id, is_moderator, settings, is_subscriber) ==
    IF ~settings.subscriber_only \/ is_moderator THEN [ok |-> TRUE]
    ELSE IF ~is_subscriber
    THEN [ok |-> FALSE, err |-> "SubscribersOnly", provider |-> Provider(track_id)]
    ELSE [ok |-> TRUE]

\* The subscriber gate of handle_request, on the settings as read and on
\* StreamInfo::is_subscriber of the name of the user.
SubscriberGate(track_id, is_moderator, settings, is_subscriber) ==
    LET track_type == Provider(track_id)
        by_track_id == IF track_type = "Spotify"
                       THEN settings.spotify_subscriber_only
                       ELSE settings.youtube_subscriber_only
        subscriber_only == by_track_id \/ settings.subscriber_only
    IN IF ~subscriber_only \/ is_moderator THEN [ok |-> TRUE]
       ELSE IF ~is_subscriber
       THEN [ok |-> FALSE, err |-> "SubscribersOnly", provider |-> track_type]
       ELSE [ok |-> TRUE]

\* Handler::handle_request on a track id that parsed: the subscriber gate
\* answers the user and ends the request, or add_track is called.  The
\* settings and the subscribers of the stream are read as they are then.
HandleRequest(r, user, track_id, is_moderator, settings, subscribers) ==
    LET gate == SubscriberGate(track_id, is_moderator, settings, user \in subscribers)
    IN IF gate.ok
       THEN AddTrackCheck(r, user, track_id, is_moderator)
       ELSE /\ reqs[r].st = "idle"
            /\ reply' = [call |-> "request", stage |-> "gate", client |-> r,
                         user |-> user, track_id |-> track_id,
                         is_moderator |-> is_moderator, settings |-> settings,
                         is_subscriber |-> user \in subscribers, result |-> gate]
            /\ UNCHANGED <<words_iter, balance, canceled, readers, queue, db, commands, bus, volume, current, closed,
                           paused, loaded, inject, sidelined, pop_front, fallback_items,
                           echo_current_song, pc, not_ready, player, events, detached, file,
                           now, reqs, step, popped, cold>>

----------------------------------------------------------------------------
(* Queue and PlayerClient: promote, remove, purge *)

\* VecDeque::swap(0, n), n 0-based and in range
Swap0Overwrite(q, n) ==
    [i \in 1 .. Len(q) |-> IF i = 1 THEN q[n + 1] ELSE q[i]]

Swap0(q, n) ==
    [i \in 1 .. Len(q) |-> IF i = 1 THEN q[n + 1] ELSE IF i = n + 1 THEN q[1] ELSE q[i]]

\* VecDeque::remove(n), n 0-based and in range
Remove(q, n) == SubSeq(q, 1, n) \o SubSeq(q, n + 2, Len(q))

\* rposition of the items of the user: the largest 0-based index, or None
LastByUser(q, user) ==
    LET at == {i \in 1 .. Len(q) : q[i].user = Some(user)}
    IN IF at = {} THEN None ELSE Some((CHOOSE i \in at : \A j \in at : j <= i) - 1)

\* A queue mutation of the client: the queue and the records after it, what it
\* returned (an Option, or the list of purge), and Modified sent when that is
\* not None and not empty.
MutateAlways(call, q, records, result) ==
    /\ queue' = q
    /\ db' = records
    /\ Modified
    /\ reply' = [call |-> call, result |-> result]
    /\ UNCHANGED <<words_iter, balance, canceled, readers, bus, volume, current, closed, paused, loaded, inject, sidelined,
                   pop_front, fallback_items, echo_current_song, pc, not_ready, player,
                   events, detached, file, now, reqs, step, popped, cold>>

Mutate(call, q, records, result) ==
    /\ queue' = q
    /\ db' = records
    /\ IF result # <<>> THEN Modified ELSE UNCHANGED commands
    /\ reply' = [call |-> call, result |-> result]
    /\ UNCHANGED <<words_iter, balance, canceled, readers, bus, volume, current, closed, paused, loaded, inject, sidelined,
                   pop_front, fallback_items, echo_current_song, pc, not_ready, player,
                   events, detached, file, now, reqs, step, popped, cold>>

\* PlayerClient::promote_song over Queue::promote_song
PromoteSong(user, n) ==
    /\ CanSend
    /\ IF queue = <<>> \/ n >= Len(queue)
       THEN Mutate("promote_song", queue, db, None)
       ELSE Mutate("promote_song", Swap0(queue, n), db, Some(queue[n + 1]))

\* PlayerClient::purge over Queue::purge: the result is the list of the items
\* purged, and Modified is sent when it is not empty.
Purge ==
    /\ CanSend
    /\ IF queue = <<>>
       THEN Mutate("purge", queue, db, <<>>)
       ELSE Mutate("purge", <<>>, <<>>, queue)

\* PlayerClient::remove_at over Queue::remove_at
RemoveAt(n) ==
    /\ CanSend
    /\ IF queue = <<>> \/ n >= Len(queue)
       THEN Mutate("remove_at", queue, db, None)
       ELSE Mutate("remove_at", Remove(queue, n), RemoveSong(db, queue[n + 1].track_id),
                   Some(queue[n + 1]))

\* PlayerClient::remove_last over Queue::remove_last
RemoveLast ==
    /\ CanSend
    /\ IF queue = <<>>
       THEN Mutate("remove_last", queue, db, None)
       ELSE Mutate("remove_last", Remove(queue, Len(queue) - 1),
                   RemoveSong(db, queue[Len(queue)].track_id), Some(queue[Len(queue)]))

\* PlayerClient::remove_last_by_user over Queue::remove_last_by_user
RemoveLastByUser(user) ==
    /\ CanSend
    /\ LET at == LastByUser(queue, user)
       IN IF queue = <<>> \/ at = None
          THEN Mutate("remove_last_by_user", queue, db, None)
          ELSE Mutate("remove_last_by_user", Remove(queue, at[1]),
                      RemoveSong(db, queue[at[1] + 1].track_id), Some(queue[at[1] + 1]))

----------------------------------------------------------------------------
(* Removals whose write to the database can fail *)

\* Backend::remove_song_log: the records after it; removed is whether
\* remove_song succeeded, and its error is only logged.
RemoveSongLog(records, track_id, removed) ==
    IF removed THEN RemoveSong(records, track_id) ELSE records

\* Backend::song_purge_log: the error of song_purge is only logged.
SongPurgeLog(records, purged) == IF purged THEN <<>> ELSE records

\* The task of Queue::pop_front keeping the item when its record stays.
PopTaskLogKept(want, removed) ==
    /\ IF queue # <<>> /\ removed
       THEN /\ queue' = Tail(queue)
            /\ db' = RemoveSongLog(db, Head(queue).track_id, removed)
            /\ popped' = Some([want |-> want, got |-> Some(Head(queue))])
       ELSE /\ popped' = Some([want |-> want, got |-> None])
            /\ UNCHANGED <<queue, db>>

\* The body of the task of Queue::pop_front: the item leaves the queue, then
\* its record is removed, or not.
PopTaskLog(want, removed) ==
    /\ IF queue # <<>>
       THEN /\ queue' = Tail(queue)
            /\ db' = RemoveSongLog(db, Head(queue).track_id, removed)
            /\ popped' = Some([want |-> want, got |-> Some(Head(queue))])
       ELSE /\ popped' = Some([want |-> want, got |-> None])
            /\ UNCHANGED <<queue, db>>

\* The task whose handle the engine holds runs and completes with Ok.
RunPopFrontLog(removed) ==
    /\ pop_front # None
    /\ pop_front[1].state = "pending"
    /\ PopTaskLog(pop_front[1].item, removed)
    /\ pop_front' = Some([pop_front[1] EXCEPT !.state = "done"])
    /\ UNCHANGED <<words_iter, balance, canceled, readers, commands, bus, volume, current, closed, paused, loaded, inject,
                   sidelined, fallback_items, echo_current_song, pc, not_ready, player,
                   events, detached, file, now, reqs, step, reply, cold>>

\* PlayerClient::remove_at, remove_last, remove_last_by_user and purge
RemoveAtLog(n, removed) ==
    /\ CanSend
    /\ IF queue = <<>> \/ n >= Len(queue)
       THEN Mutate("remove_at", queue, db, None)
       ELSE Mutate("remove_at", Remove(queue, n),
                   RemoveSongLog(db, queue[n + 1].track_id, removed), Some(queue[n + 1]))

RemoveLastLog(removed) ==
    /\ CanSend
    /\ IF queue = <<>>
       THEN Mutate("remove_last", queue, db, None)
       ELSE Mutate("remove_last", Remove(queue, Len(queue) - 1),
                   RemoveSongLog(db, queue[Len(queue)].track_id, removed),
                   Some(queue[Len(queue)]))

RemoveLastByUserLog(user, removed) ==
    /\ CanSend
    /\ LET at == LastByUser(queue, user)
       IN IF queue = <<>> \/ at = None
          THEN Mutate("remove_last_by_user", queue, db, None)
          ELSE Mutate("remove_last_by_user", Remove(queue, at[1]),
                      RemoveSongLog(db, queue[at[1] + 1].track_id, removed),
                      Some(queue[at[1] + 1]))

PurgeLog(purged) ==
    /\ CanSend
    /\ IF queue = <<>>
       THEN Mutate("purge", queue, db, <<>>)
       ELSE Mutate("purge", <<>>, SongPurgeLog(db, purged), queue)

----------------------------------------------------------------------------
(* emotes: Words *)

\* The characters of a text with their length in bytes: a letter, a letter of
\* two bytes, the space and the no-break space.
Utf8Len == ("a" :> 1) @@ ("U+00E9" :> 2) @@ (" " :> 1) @@ ("U+00A0" :> 2)

\* char::is_whitespace
IsWhitespace(c) == c \in {" ", "U+00A0"}

\* The texts: the strings of at most MaxLen characters.
Texts == UNION {[1 .. k -> DOMAIN Utf8Len] : k \in 0 .. MaxLen}

\* str::len, in bytes
RECURSIVE StrLen(_)
StrLen(string) ==
    IF string = <<>> THEN 0 ELSE Utf8Len[Head(string)] + StrLen(Tail(string))

\* str::find for the characters that are whitespace, or for those that are
\* not: the byte index of the first one, or None.
RECURSIVE Find(_, _)
Find(string, whitespace) ==
    IF string = <<>> THEN None
    ELSE IF IsWhitespace(Head(string)) = whitespace THEN Some(0)
    ELSE LET rest == Find(Tail(string), whitespace)
         IN IF rest = None THEN None ELSE Some(Utf8Len[Head(string)] + rest[1])

\* &string[from..] and &string[..to], for byte indices at character boundaries
RECURSIVE SliceFrom(_, _)
SliceFrom(string, from) ==
    IF from <= 0 \/ string = <<>> THEN string
    ELSE SliceFrom(Tail(string), from - Utf8Len[Head(string)])

RECURSIVE SliceTo(_, _)
SliceTo(string, to) ==
    IF to <= 0 \/ string = <<>> THEN <<>>
    ELSE <<Head(string)>> \o SliceTo(Tail(string), to - Utf8Len[Head(string)])

\* Words::new
WordsNew(string) == [string |-> string, n |-> 0]

\* The offset of a word counted in what is left of the text.
OffsetInRest(n, s) == s

\* The offset of a word that starts at s in what is left of the text, n bytes
\* of which were consumed.
Offset(n, s) == n + s

\* Words::next: the iterator after the call and what the call returns.
WordsNext(w) ==
    IF w.string = <<>> THEN [w |-> w, ret |-> None]
    ELSE LET s == Find(w.string, FALSE)
             consumed == [string |-> <<>>, n |-> w.n + StrLen(w.string)]
         IN IF s = None THEN [w |-> consumed, ret |-> None]
            ELSE LET n == Find(SliceFrom(w.string, s[1]), TRUE)
                 IN IF n = None
                    THEN [w |-> consumed,
                          ret |-> Some([offset |-> Offset(w.n, s[1]),
                                        word |-> SliceFrom(w.string, s[1])])]
                    ELSE LET e == s[1] + n[1]
                         IN [w |-> [string |-> SliceFrom(w.string, e), n |-> w.n + e],
                             ret |-> Some([offset |-> Offset(w.n, s[1]),
                                           word |-> SliceTo(SliceFrom(w.string, s[1]), e - s[1])])]

\* Words::new(string).collect() before its first call of next.
Iterate(string) == [input |-> string, w |-> WordsNew(string), yielded |-> <<>>, done |-> FALSE]

\* One call of next by collect(), which ends at the first None.
Collect ==
    /\ ~words_iter.done
    /\ LET r == WordsNext(words_iter.w)
       IN words_iter' = [words_iter EXCEPT !.w = r.w,
                                          !.yielded = IF r.ret = None THEN @ ELSE Append(@, r.ret[1]),
                                          !.done = (r.ret = None)]
    /\ UNCHANGED <<balance, canceled, readers, queue, db, commands, bus, volume, current, closed,
                   paused, loaded, inject, sidelined, pop_front, fallback_items,
                   echo_current_song, pc, not_ready, player, events, detached, file, now,
                   reqs, step, popped, reply, cold>>

----------------------------------------------------------------------------
(* module::song: the promote and delete commands *)

\* The value of the decimal digits.
DigitValue == [c \in {"0", "1", "2"} |-> CHOOSE d \in 0 .. 2 : ToString(d) = c]

\* The characters of the arguments, the words last and mine, and the other
\* words: those of one character, and those of two that start with 0 or 1.
Chars == DOMAIN DigitValue \cup {"x"}
Last == <<"l", "a", "s", "t">>
Mine == <<"m", "i", "n", "e">>
Args == {<<c>> : c \in Chars} \cup {<<c, d>> : c \in {"0", "1"}, d \in Chars}

\* str::parse::<usize>: the decimal value of a non-empty word of digits, and an
\* error for every other word.
RECURSIVE ParseDigits(_, _)
ParseDigits(arg, acc) ==
    IF arg = <<>> THEN [ok |-> TRUE, n |-> acc]
    ELSE IF Head(arg) \notin DOMAIN DigitValue THEN [ok |-> FALSE]
    ELSE ParseDigits(Tail(arg), acc * 10 + DigitValue[Head(arg)])

ParseUsize(arg) == IF arg = <<>> THEN [ok |-> FALSE] ELSE ParseDigits(arg, 0)

\* parse_queue_position taking the number as the index.
ParseQueuePositionAsIndex(arg) ==
    LET parsed == ParseUsize(arg)
    IN IF ~parsed.ok THEN [index |-> None, respond |-> "Expected whole number argument"]
       ELSE [index |-> Some(parsed.n), respond |-> ""]

\* parse_queue_position: the index of the queue for a position, and None with
\* a response for the position 0 and for what is not a number.
ParseQueuePosition(arg) ==
    LET parsed == ParseUsize(arg)
    IN IF ~parsed.ok THEN [index |-> None, respond |-> "Expected whole number argument"]
       ELSE IF parsed.n = 0
       THEN [index |-> None, respond |-> "Can't mess with the current song :("]
       ELSE [index |-> Some(IF parsed.n >= 1 THEN parsed.n - 1 ELSE 0), respond |-> ""]

\* A command that ends with a response before it called the player.
Respond(call, arg, message) ==
    /\ reply' = [call |-> call, arg |-> arg, result |-> None, respond |-> message]
    /\ UNCHANGED <<words_iter, balance, canceled, readers, queue, db, commands, bus, volume, current, closed,
                   paused, loaded, inject, sidelined, pop_front, fallback_items,
                   echo_current_song, pc, not_ready, player, events, detached, file, now,
                   reqs, step, popped, cold>>

\* The promote command of a moderator; words are the words after the command,
\* which ctx.next() yields one by one.
ChatPromote(user, words) ==
    IF words = <<>> THEN Respond("promote", words, "")
    ELSE LET position == ParseQueuePosition(words[1])
         IN IF position.index = None
            THEN Respond("promote", words, position.respond)
            ELSE PromoteSong(user, position.index[1])

\* The delete command of a moderator: last, last <user>, mine, or a position.
ChatDelete(user, words) ==
    IF words = <<>> THEN Respond("delete", words, "Expected: last, last <user>, or mine")
    ELSE IF words[1] = Last
    THEN IF Len(words) > 1 THEN RemoveLastByUser(words[2]) ELSE RemoveLast
    ELSE IF words[1] = Mine THEN RemoveLastByUser(user)
    ELSE LET position == ParseQueuePosition(words[1])
         IN IF position.index = None
            THEN Respond("delete", words, position.respond)
            ELSE RemoveAt(position.index[1])

\* Item::duration of the tracks, in seconds.
Durations == [A |-> 200, B |-> 100, C |-> 50, T1 |-> 10, T2 |-> 20, F1 |-> 300, F2 |-> 400]

\* The sum of the durations of the items of q.
RECURSIVE QueueDuration(_)
QueueDuration(q) ==
    IF q = <<>> THEN 0 ELSE Durations[Head(q).track_id] + QueueDuration(Tail(q))

\* PlayerClient::list: the current item, then the items of the queue.
List == current \o queue

\* PlayerClient::length: the number of items, the current one included, and
\* their total duration in seconds.
Length ==
    LET count == IF current # None THEN 1 ELSE 0
        duration == IF current # None THEN Durations[current[1].track_id] ELSE 0
    IN <<count + Len(queue), duration + QueueDuration(queue)>>

----------------------------------------------------------------------------
(* Construction: player::run *)

\* The queue as restored from the persisted records.
Restore(records) == [i \in 1 .. Len(records) |-> Item(records[i].track_id, records[i].user)]

Record(track_id, user) == [track_id |-> track_id, user |-> Some(user)]

\* What run() builds: connect tells the connect player from the native one,
\* config_volume is Config::volume, items the queue, records the persisted
\* queue, fallback the fallback playlist, at the position of the engine.
Construct(connect, config_volume, items, records, fallback, at) ==
    /\ queue = items
    /\ db = records
    /\ commands = IF connect
                  THEN <<CmdPause>> \o (IF config_volume # None
                                        THEN <<VolumeCommand(config_volume[1])>>
                                        ELSE <<>>)
                  ELSE <<>>
    /\ bus = <<>>
    /\ readers = 0
    /\ volume = Min(100, IF config_volume # None THEN config_volume[1] ELSE 100)
    /\ current = None
    /\ closed = None
    /\ paused = ~connect
    /\ loaded = None
    /\ inject = None
    /\ sidelined = <<>>
    /\ pop_front = None
    /\ fallback_items = fallback
    /\ echo_current_song = TRUE
    /\ pc = at
    /\ not_ready = TRUE
    /\ player = [item |-> None, offset_ms |-> 0, state |-> "idle", volume |-> None]
    /\ events = 0
    /\ detached = <<>>
    /\ file = None
    /\ now = 0
    /\ reqs = [r \in Clients |-> Idle]
    /\ step = IdleStep
    /\ popped = None
    /\ reply = [call |-> "none"]
    /\ canceled = FALSE
    /\ cold = (~connect /\ records = <<>>)

\* The track ids for which Spotify::track returns an error.
Unresolvable == {"X"}

\* convert_item succeeds on the record.
Resolves(record) == record.track_id \notin Unresolvable

\* The state after run().  The loop over the records returns the error of the
\* first convert_item that fails: run() then returns no engine and no client,
\* and the records stay as they were.
Run(connect, config_volume, records, fallback) ==
    /\ balance = [user \in Users |-> StartBalance]
    /\ words_iter = Iterate(<<>>)
    /\ IF \A i \in DOMAIN records : Resolves(records[i])
       THEN Construct(connect, config_volume, Restore(records), records, fallback, "pop")
       ELSE Construct(FALSE, None, <<>>, records, fallback, "failed")

FallbackPlaylist == <<Item("F1", NoUser), Item("F2", NoUser)>>

----------------------------------------------------------------------------
(* The engine with its device, commanded by the clients *)

Engine == Wake \/ PollPop \/ PollLoaded \/ PollEvents \/ PollCommands

Init ==
    \E connect \in BOOLEAN, fallback \in {<<>>, FallbackPlaylist},
       records \in {<<>>, <<Record("A", "u1")>>} :
        Run(connect, None, records, fallback)

Next ==
    \/ Engine
    \/ RunPopFront
    \/ RunDetached
    \/ DeviceFinish
    \/ Skip
    \/ Toggle
    \/ Play
    \/ Pause
    \/ PlayTheme("T1")
    \/ Purge

Spec == Init /\ [][Next]_vars

----------------------------------------------------------------------------
(* The engine with the clock running: themes injected over a queued track *)

InitTime ==
    \E connect \in BOOLEAN :
        Run(connect, None, <<Record("A", "u1")>>, FallbackPlaylist)

NextTime ==
    \/ Engine
    \/ RunPopFront
    \/ DeviceFinish
    \/ Tick
    \/ Skip
    \/ Play
    \/ Pause
    \/ \E name \in ThemeIds : PlayTheme(name)

SpecTime == InitTime /\ [][NextTime]_vars

----------------------------------------------------------------------------
(* The engine popping the queue while a client reorders it *)

InitPop == Run(FALSE, None, <<Record("A", "u1"), Record("B", "u2")>>, FallbackPlaylist)

NextPop ==
    \/ Engine
    \/ RunPopFront
    \/ RunDetached
    \/ DeviceFinish
    \/ Skip
    \/ Play
    \/ \E user \in Users, n \in 0 .. MaxQueue : PromoteSong(user, n)

SpecPop == InitPop /\ [][NextPop]_vars

----------------------------------------------------------------------------
(* Themes injected over themes *)

InitNest == Run(FALSE, None, <<Record("A", "u1")>>, FallbackPlaylist)

NextNest ==
    \/ Engine
    \/ RunPopFront
    \/ DeviceFinish
    \/ Skip
    \/ Play
    \/ \E name \in ThemeIds : PlayThemeWithin(name, MaxNested)

SpecNest == InitNest /\ [][NextNest]_vars

----------------------------------------------------------------------------
(* The device dropping loads *)

InitCancel ==
    \E records \in {<<>>, <<Record("A", "u1")>>} :
        Run(FALSE, None, records, FallbackPlaylist)

NextCancel ==
    \/ Engine
    \/ RunPopFront
    \/ DeviceFinish
    \/ DeviceCancel
    \/ Skip
    \/ Play
    \/ Pause
    \/ \E v \in VolumeArgs : SetVolume(v)
    \/ Purge

SpecCancel == InitCancel /\ [][NextCancel]_vars

----------------------------------------------------------------------------
(* Startup over persisted records, some of which the catalog cannot resolve *)

StartupRecords ==
    {<<>>,
     <<Record("A", "u1"), Record("B", "u2")>>,
     <<Record("A", "u1"), Record("X", "u2"), Record("B", "u1")>>,
     <<Record("X", "u1")>>}

InitStartup ==
    \E records \in StartupRecords : Run(FALSE, None, records, FallbackPlaylist)

NextStartup ==
    \/ Engine
    \/ RunPopFront
    \/ DeviceFinish
    \/ Skip
    \/ Play

SpecStartup == InitStartup /\ [][NextStartup]_vars

----------------------------------------------------------------------------
(* The engine playing a queue that a moderator promotes in and purges *)

InitQueue ==
    \E records \in {<<>>, <<Record("A", "u1"), Record("B", "u2"), Record("C", "u1")>>} :
        Run(FALSE, None, records, FallbackPlaylist)

NextQueue ==
    \/ Engine
    \/ RunPopFront
    \/ DeviceFinish
    \/ Play
    \/ Pause
    \/ \E user \in Users, n \in 0 .. MaxQueue : PromoteSong(user, n)
    \/ Purge

SpecQueue == InitQueue /\ [][NextQueue]_vars

----------------------------------------------------------------------------
(* The engine and the promote and delete commands *)

\* What follows the command in a message.
CommandWords == {<<>>} \cup {<<arg>> : arg \in Args}

NextChat ==
    \/ Engine
    \/ Play
    \/ \E words \in CommandWords : ChatPromote("u1", words)
    \/ \E words \in CommandWords \cup {<<Last>>, <<Last, "u2">>} : ChatDelete("u1", words)
    \/ \E user \in Users : ChatDelete(user, <<Mine>>)

SpecChat == InitQueue /\ [][NextChat]_vars

----------------------------------------------------------------------------
(* The engine and a reader of the bus *)

NextBus ==
    \/ Engine
    \/ RunPopFront
    \/ DeviceFinish
    \/ Play
    \/ Pause
    \/ Skip
    \/ AddRx
    \/ BusRecv

SpecBus == InitPop /\ [][NextBus]_vars

----------------------------------------------------------------------------
(* Words over the texts *)

InitWords ==
    /\ \E string \in Texts : words_iter = Iterate(string)
    /\ balance = [user \in Users |-> StartBalance]
    /\ Construct(FALSE, None, <<>>, <<>>, <<>>, "pop")

NextWords == Collect

SpecWords == InitWords /\ [][NextWords]_vars

----------------------------------------------------------------------------
(* The engine, the device dropping loads and the queue purged *)

InitPurge ==
    \E fallback \in {<<>>, FallbackPlaylist} :
        Run(FALSE, None, <<Record("A", "u1"), Record("B", "u2")>>, fallback)

NextPurge ==
    \/ Engine
    \/ RunPopFront
    \/ DeviceFinish
    \/ DeviceCancel
    \/ Play
    \/ Pause
    \/ Purge

SpecPurge == InitPurge /\ [][NextPurge]_vars

----------------------------------------------------------------------------
(* The engine and the removals, with a database that can fail *)

NextPersist ==
    \/ Engine
    \/ \E removed \in BOOLEAN : RunPopFrontLog(removed)
    \/ DeviceFinish
    \/ Play
    \/ \E n \in 0 .. MaxQueue, removed \in BOOLEAN : RemoveAtLog(n, removed)
    \/ \E removed \in BOOLEAN : RemoveLastLog(removed)
    \/ \E user \in Users, removed \in BOOLEAN : RemoveLastByUserLog(user, removed)
    \/ \E purged \in BOOLEAN : PurgeLog(purged)

SpecPersist == InitQueue /\ [][NextPersist]_vars

----------------------------------------------------------------------------
(* The engine and the volume requests *)

\* The values of Config::volume.
ConfigVolumes == {None, Some(40), Some(150)}

InitVolume ==
    \E connect \in BOOLEAN, config_volume \in ConfigVolumes :
        Run(connect, config_volume, <<>>, FallbackPlaylist)

NextVolume ==
    \/ Engine
    \/ \E v \in VolumeArgs : SetVolume(v)
    \/ \E diff \in {"set", "add", "sub"}, argument \in VolumeArgs : SongVolume(diff, argument)

SpecVolume == InitVolume /\ [][NextVolume]_vars

----------------------------------------------------------------------------
(* The clients of the queue: concurrent requests, removals, promotions *)

InitAdmit == Run(FALSE, None, <<>>, FallbackPlaylist)

NextAdmit ==
    \/ \E r \in Clients, user \in Users, track_id \in TrackIds, is_moderator \in BOOLEAN :
          AddTrackCheck(r, user, track_id, is_moderator)
    \/ \E r \in Clients, resolved \in BOOLEAN, written \in BOOLEAN :
          AddTrackPush(r, resolved, written)
    \/ \E r \in Clients : AddTrackSend(r)
    \/ \E reason \in Reasons : Close(reason)
    \/ Open
    \/ \E user \in Users, n \in 0 .. MaxQueue : PromoteSong(user, n)
    \/ \E n \in 0 .. MaxQueue : RemoveAt(n)
    \/ RemoveLast
    \/ \E user \in Users : RemoveLastByUser(user)
    \/ Purge

SpecAdmit == InitAdmit /\ [][NextAdmit]_vars

----------------------------------------------------------------------------
(* The clients adding to and removing from the queue of an open player *)

NextModify ==
    \/ \E r \in Clients, user \in Users, track_id \in TrackIds, is_moderator \in BOOLEAN :
          AddTrackCheck(r, user, track_id, is_moderator)
    \/ \E r \in Clients, resolved \in BOOLEAN, written \in BOOLEAN :
          AddTrackPush(r, resolved, written)
    \/ \E r \in Clients : AddTrackSend(r)
    \/ \E user \in Users, n \in 0 .. MaxQueue : PromoteSong(user, n)
    \/ \E n \in 0 .. MaxQueue : RemoveAt(n)
    \/ RemoveLast
    \/ \E user \in Users : RemoveLastByUser(user)
    \/ Purge

SpecModify == InitAdmit /\ [][NextModify]_vars

----------------------------------------------------------------------------
(* Concurrent requests of users who are not moderators *)

NextQuota ==
    \/ \E r \in Clients, user \in Users, track_id \in TrackIds :
          AddTrackCheck(r, user, track_id, FALSE)
    \/ \E r \in Clients, resolved \in BOOLEAN, written \in BOOLEAN :
          AddTrackPush(r, resolved, written)
    \/ \E r \in Clients : AddTrackSend(r)
    \/ RemoveLast

SpecQuota == InitAdmit /\ [][NextQuota]_vars

----------------------------------------------------------------------------
(* The engine polled whenever it was woken, pop tasks run by the thread pool *)

NextProgress ==
    \/ Engine
    \/ RunPopFront
    \/ DeviceFinish
    \/ DeviceCancel
    \/ Play
    \/ Pause

\* The executor polls a future that was woken, and the thread pool runs the
\* tasks spawned on it.  Nothing obliges the device or the clients to act.
SpecProgress ==
    /\ InitPop
    /\ [][NextProgress]_vars
    /\ WF_vars(Engine)
    /\ WF_vars(RunPopFront)

----------------------------------------------------------------------------
(* The request command of the chat, with the settings as they are read *)

NextRequest ==
    \/ \E user \in Users, track_id \in TrackIds, is_moderator \in BOOLEAN,
          settings \in Settings, subscribers \in SUBSET Users :
          HandleRequest(1, user, track_id, is_moderator, settings, subscribers)
    \/ \E resolved \in BOOLEAN, written \in BOOLEAN : AddTrackPush(1, resolved, written)
    \/ AddTrackSend(1)
    \/ RemoveLast

SpecRequest == InitAdmit /\ [][NextRequest]_vars

----------------------------------------------------------------------------
(* Requests that cost currency *)

NextCurrency ==
    \/ \E r \in Clients, user \in Users, track_id \in TrackIds :
          AddTrackCheck(r, user, track_id, FALSE)
    \/ \E r \in Clients, resolved \in BOOLEAN, min_currency \in MinCurrencies :
          Price(r, resolved, min_currency)
    \/ \E r \in Clients, written \in BOOLEAN : AppendPaid(r, written)
    \/ \E r \in Clients : AddTrackSend(r)
    \/ RemoveLast

SpecCurrency == InitAdmit /\ [][NextCurrency]_vars

----------------------------------------------------------------------------
(* Requests reaching an engine whose device can drop a load *)

NextEnqueue ==
    \/ Engine
    \/ RunPopFront
    \/ DeviceFinish
    \/ DeviceCancel
    \/ Play
    \/ \E track_id \in TrackIds : AddTrackCheck(1, "u1", track_id, FALSE)
    \/ AddTrackPush(1, TRUE, TRUE)
    \/ AddTrackSend(1)

SpecEnqueue == InitAdmit /\ [][NextEnqueue]_vars

----------------------------------------------------------------------------
(* Requests arriving at an engine that has nothing to play *)

NextEmpty ==
    \/ Engine
    \/ RunPopFront
    \/ Skip
    \/ Toggle
    \/ \E track_id \in TrackIds : AddTrackCheck(1, "u1", track_id, FALSE)
    \/ AddTrackPush(1, TRUE, TRUE)
    \/ AddTrackSend(1)

SpecEmpty == InitAdmit /\ [][NextEmpty]_vars

----------------------------------------------------------------------------
(* Properties *)

\* The decision of the advance of the last engine step, when it made one.
Advanced == step.adv # None
Adv == step.adv[1]

\* The last engine step processed a command of the given kind.
Processed(kind) ==
    step.kind = "command" /\ step.command # None /\ step.command[1].kind = kind

\* C1: every advance takes its source in strict priority order: the pending
\* inject, else the front of the sidelined deque, else the front of the queue
\* at offset 0, else a fallback track at offset 0 and only when the engine is
\* not paused or a track was loaded (the engine panics there when the pool is
\* empty), else nothing; and the track left loaded is the one of that source.
C1_AdvancePriority ==
    Advanced =>
        LET expected == IF Adv.inject THEN "Injected"
                        ELSE IF Adv.sidelined THEN "Sidelined"
                        ELSE IF Adv.queue THEN "Queue"
                        ELSE IF ~Adv.paused \/ Adv.loaded THEN "Fallback"
                        ELSE "Nothing"
        IN /\ \/ Adv.src = expected
              \/ Adv.src = "Panic" /\ expected = "Fallback" /\ fallback_items = <<>>
           /\ Adv.src \in {"Queue", "Fallback"} => Adv.offset = 0
           /\ Adv.src \in {"Injected", "Queue", "Fallback"} =>
                 loaded # None /\ loaded[1].origin = Adv.src /\ loaded[1].offset = Adv.offset
           /\ Adv.src = "Sidelined" => loaded # None /\ loaded[1].offset = Adv.offset
           /\ Adv.src = "Nothing" => loaded = None

\* C1 witness: a fallback track was loaded by an advance that found no inject,
\* nothing sidelined and an empty queue.
C1_Witness ==
    Advanced /\ Adv.src = "Fallback" /\ loaded # None /\ loaded[1].origin = "Fallback"

\* C2: from a paused start with nothing loaded and an empty queue, and as long
\* as no Play has taken effect and nothing was requested, no track of origin
\* Fallback is loaded by a command.
C2_FallbackGuard ==
    cold /\ step.kind = "command" =>
        ~(loaded # None /\ loaded[1].origin = "Fallback")

\* C4: the item a pop task removes from the queue is the item that was loaded
\* when the task was scheduled.
C4_PopRemovesLoaded ==
    popped # None => popped[1].got = Some(popped[1].want)

\* C5: no command is processed while a scheduled pop has not completed.
C5_NoCommandDuringPop ==
    step.kind = "command" => ~step.popping

\* C6: whenever the engine is not paused and a track is loaded, the device was
\* last asked to load that track and, since, to play.
C6_DeviceConsistency ==
    ~paused /\ loaded # None =>
        player.item = Some(loaded[1].item) /\ player.state = "playing"

\* C6 witness: playback resumed by a Play on a track loaded while paused.
C6_Witness ==
    /\ ~paused /\ loaded # None
    /\ Processed("Play") /\ ~Advanced
    /\ player.state = "playing"

\* C10: processing Inject(item, offset) leaves the item loaded at the offset
\* with origin Injected, the engine not paused, the device playing, and
\* Playing(Injected, item) broadcast.
C10_InjectPlays ==
    Processed("Inject") =>
        LET c == step.command[1]
        IN /\ loaded # None
           /\ loaded[1].origin = "Injected"
           /\ loaded[1].item = c.item
           /\ loaded[1].offset = c.offset
           /\ ~paused
           /\ player.state = "playing"
           /\ \E i \in DOMAIN step.emitted :
                 step.emitted[i] = EvPlaying(echo_current_song, "Injected", c.item)

\* C7: a sidelined entry is resumed at an offset no smaller than the offset it
\* was loaded with before it was sidelined.
C7_SidelineMonotonic ==
    Advanced /\ Adv.src = "Sidelined" => Adv.offset >= Adv.from

\* C3: no two items of the queue have the same track id.
C3_QueueUnique ==
    \A i, j \in DOMAIN queue : i # j => queue[i].track_id # queue[j].track_id

\* C8: the shared volume is always within 0..100; every volume request, made
\* directly with v or in chat as N, +N or -N at the volume read then, sends
\* min(v, 100), the sum saturating at 100 and the difference at 0; and a
\* processed Volume(v) leaves the shared volume at v and the device at v / 100.
C8_VolumeClamp ==
    /\ volume \in 0 .. 100
    /\ reply.call = "volume" =>
          LET n == reply.argument
              at == reply.at
              expected == CASE reply.diff = "add" -> IF n >= 100 - at THEN 100 ELSE at + n
                            [] reply.diff = "sub" -> IF n >= at THEN 0 ELSE at - n
                            [] OTHER -> IF n >= 100 THEN 100 ELSE n
          IN reply.sent = CmdVolume(expected)
    /\ Processed("Volume") =>
          /\ step.command[1].volume \in 0 .. 100
          /\ volume = step.command[1].volume
          /\ player.volume = [num |-> step.command[1].volume, den |-> 100]

\* C8 witness: `volume -N` with N above the volume read was processed: the
\* shared volume is 0 and the device received 0 / 100.
C8_Witness ==
    /\ reply.call = "volume" /\ reply.diff = "sub" /\ reply.argument > reply.at
    /\ Processed("Volume") /\ step.command[1] = reply.sent
    /\ volume = 0
    /\ player.volume = [num |-> 0, den |-> 100]

\* C9: the snapshot checks of add_track answer, in this order, PlayerClosed with
\* the reason when the player is closed, QueueFull when the queue is longer than
\* max_queue_length, QueueContainsTrack with the index of the first item of
\* the same track id, TooManyUserTracks when the requester has max_songs_per_user
\* items or more; a moderator is only refused with QueueContainsTrack; and a
\* refusal leaves the queue, the records and the command channel as they were
\* and ends the call.  The step of a call is told by the reply it leaves.
C9_AdmissionOrder ==
    [][reply'.call = "add_track" /\ reply'.stage = "check" =>
          LET r == reply'.client
              user == reply'.user
              track_id == reply'.track_id
              is_moderator == reply'.is_moderator
          IN AddTrackCheck(r, user, track_id, is_moderator) =>
              LET same == {i \in DOMAIN queue : queue[i].track_id = track_id}
                  first == CHOOSE i \in same : \A j \in same : i <= j
                  mine == Cardinality({i \in DOMAIN queue : queue[i].user = Some(user)})
                  expected ==
                      IF ~is_moderator /\ closed # None
                      THEN [ok |-> FALSE, err |-> "PlayerClosed", reason |-> closed[1]]
                      ELSE IF ~is_moderator /\ Len(queue) > max_queue_length
                      THEN [ok |-> FALSE, err |-> "QueueFull"]
                      ELSE IF same # {}
                      THEN [ok |-> FALSE, err |-> "QueueContainsTrack", index |-> first - 1]
                      ELSE IF ~is_moderator /\ mine >= max_songs_per_user
                      THEN [ok |-> FALSE, err |-> "TooManyUserTracks",
                            max |-> max_songs_per_user]
                      ELSE [ok |-> TRUE, len |-> Len(queue)]
              IN /\ reply'.result = expected
                 /\ ~expected.ok =>
                       /\ queue' = queue
                       /\ db' = db
                       /\ commands' = commands
                       /\ reqs'[r] = Idle]_vars

\* C9 witness: a moderator was refused with QueueContainsTrack while the player
\* was closed and the queue longer than max_queue_length.
C9_Witness ==
    /\ reply.call = "add_track" /\ reply.stage = "check"
    /\ reply.is_moderator
    /\ ~reply.result.ok /\ reply.result.err = "QueueContainsTrack"
    /\ closed # None
    /\ Len(queue) > max_queue_length
    /\ \A r \in Clients : reqs[r] = Idle

\* C11: when a track that sidelined another ends or is skipped, the track
\* loaded next is the one it sidelined, with the origin it had, and the step
\* schedules no pop of the queue.
C11_ResumeAfterInject ==
    /\ Advanced
    /\ step.kind = "finished" \/ Processed("Skip")
    /\ Adv.displaced
    => /\ Adv.src = "Sidelined"
       /\ loaded # None
       /\ Adv.last = Some([origin |-> loaded[1].origin, item |-> loaded[1].item])
       /\ step.pops = 0

\* C12: a finished completion signal makes the engine advance; a canceled one
\* clears the loaded track and the shared current item with no advance, no
\* call to the device and no broadcast; and the next command processed after
\* that makes the engine advance.
C12_LoadCompletion ==
    /\ step.kind = "finished" => Advanced
    /\ step.kind = "canceled" =>
          /\ loaded = None /\ current = None
          /\ ~Advanced /\ step.calls = <<>> /\ step.emitted = <<>>
    /\ step.kind = "command" /\ step.after_cancel => Advanced

\* C13: after an engine step that left nothing loaded, by a canceled load or
\* by an advance that found nothing, the current-song file is blank; and
\* whenever a track is loaded the file shows its item and the paused flag.
C13_FileBlank ==
    /\ pc # "panicked" /\ loaded = None /\ (step.kind = "canceled" \/ Advanced)
          => file = None
    /\ loaded # None => file = Some([item |-> loaded[1].item, paused |-> paused])

\* C14: promote at index i of a queue of length L, 0 <= i < L, swaps the
\* items at 0 and i, leaves every other index and the length alone, returns
\* the item that was at i and sends Modified; with i >= L or an empty queue
\* it returns None, leaves the queue alone and sends nothing.
C14_PromoteSwap ==
    [][\A n \in 0 .. MaxQueue :
          (\E user \in Users : PromoteSong(user, n)) =>
              IF n < Len(queue)
              THEN /\ Len(queue') = Len(queue)
                   /\ queue'[1] = queue[n + 1]
                   /\ queue'[n + 1] = queue[1]
                   /\ \A j \in 1 .. Len(queue) : j # 1 /\ j # n + 1 => queue'[j] = queue[j]
                   /\ reply'.result = Some(queue[n + 1])
                   /\ commands' = Append(commands, CmdModified)
              ELSE /\ queue' = queue
                   /\ reply'.result = None
                   /\ commands' = commands]_vars

\* The last of three queued items was promoted: it is at the front and the
\* former front is last.
C14_Witness ==
    /\ reply = [call |-> "promote_song", result |-> Some(Item("C", Some("u1")))]
    /\ queue = <<Item("C", Some("u1")), Item("B", Some("u2")), Item("A", Some("u1"))>>

\* C15: Modified is sent on success and only on success.  A promote, remove_at,
\* remove_last, remove_last_by_user or purge that changed the queue sends
\* exactly one Modified, and one that returned None (nothing purged) leaves the
\* queue alone and sends nothing.  An add_track that is refused, or whose
\* resolution or write fails, leaves the queue alone and sends nothing; one
\* whose push changed the queue ends by sending exactly one Modified.
C15_ModifiedOnSuccess ==
    [][/\ (/\ reqs' = reqs
           /\ \/ \E user \in Users, n \in 0 .. MaxQueue : PromoteSong(user, n)
              \/ \E n \in 0 .. MaxQueue : RemoveAt(n)
              \/ RemoveLast
              \/ \E user \in Users : RemoveLastByUser(user)
              \/ Purge) =>
              /\ queue' # queue => commands' = Append(commands, CmdModified)
              /\ reply'.result = None => queue' = queue /\ commands' = commands
       /\ (/\ reply'.call = "add_track" /\ reply'.stage = "check"
           /\ \E r \in Clients, user \in Users, track_id \in TrackIds, is_moderator \in BOOLEAN :
                 AddTrackCheck(r, user, track_id, is_moderator)) =>
              queue' = queue /\ commands' = commands
       /\ \A r \in Clients :
              /\ (/\ reqs[r].st = "checked"
                  /\ \E resolved \in BOOLEAN, written \in BOOLEAN :
                        AddTrackPush(r, resolved, written)) =>
                    /\ commands' = commands
                    /\ IF queue' # queue
                       THEN reqs'[r].st = "pushed"
                       ELSE reqs'[r] = Idle /\ ~reply'.result.ok
              /\ reqs[r].st # "pushed" /\ reqs'[r].st = "pushed" => queue' # queue
              /\ reqs[r].st = "pushed" /\ reqs'[r].st # "pushed" =>
                    /\ commands' = Append(commands, CmdModified)
                    /\ queue' = queue
                    /\ reply'.result.ok]_vars

\* A removal succeeded and its Modified is the only command waiting.
C15_Witness ==
    /\ reply.call = "remove_last" /\ reply.result # None
    /\ commands = <<CmdModified>>
    /\ queue # <<>>

\* C16: a purge while a track W is loaded empties the queue, leaves Loaded,
\* current and the device alone and sends one Modified, which the engine
\* broadcasts once; when a loaded track then ends with nothing injected,
\* sidelined or queued, the engine loads a fallback track if it is playing and
\* otherwise loads nothing and broadcasts Empty; and after a purge with nothing
\* loaded, length() is (0, 0).
C16_PurgeWhilePlaying ==
    [][/\ Purge /\ loaded # None /\ queue # <<>> =>
              /\ queue' = <<>>
              /\ loaded' = loaded /\ current' = current /\ player' = player
              /\ commands' = Append(commands, CmdModified)
       /\ Purge /\ loaded = None => Length' = <<0, 0>>
       /\ (Processed("Modified") => step.emitted = <<EvModified>> /\ step.calls = <<>>)'
       /\ (/\ step.kind = "finished" /\ Advanced
           /\ ~Adv.inject /\ ~Adv.sidelined /\ ~Adv.queue
           => IF ~Adv.paused
              THEN Adv.src = "Fallback" /\ loaded # None /\ loaded[1].origin = "Fallback"
              ELSE Adv.src = "Nothing" /\ loaded = None /\ step.emitted = <<EvEmpty>>)']_vars

\* C17: Pause and Play are idempotent.  From every state of the engine, the
\* command handler applied to Pause twice in a row leaves what it leaves
\* applied once, device calls and broadcasts included, and from a playing
\* engine that is exactly one device pause and one Pausing; applied to Play,
\* it makes at most one device load, one device play and one Playing
\* broadcast, and a second Play right after it changes nothing.
\* (The Pause arm and a Play that finds the engine playing reach neither the
\* rng nor the pop task: they are given 0 and FALSE.)
C17_PausePlayIdempotent ==
    pc # "panicked" =>
        /\ LET pause1 == Command(Eng, queue, CmdPause, 0, FALSE)
           IN /\ Command(pause1, queue, CmdPause, 0, FALSE) = pause1
              /\ pause1.paused
              /\ ~paused => pause1.calls = <<"pause">> /\ pause1.emitted = <<EvPausing>>
        /\ ~paused => Command(Eng, queue, CmdPlay, 0, FALSE) = Eng
        /\ paused =>
              \A n \in RngChoices, keep \in KeepChoices :
                  LET play1 == Command(Eng, queue, CmdPlay, n, keep)
                  IN /\ play1.calls \in {<<>>, <<"play">>, <<"load", "play">>}
                     /\ Len(play1.emitted) <= 1
                     /\ \A i \in 1 .. Len(play1.emitted) : play1.emitted[i].kind = "Playing"
                     /\ ~play1.panicked =>
                           /\ ~play1.paused
                           /\ Command(play1, queue, CmdPlay, 0, FALSE) = play1

\* A Pause was processed by a playing engine with a track loaded: the device
\* was paused once and Pausing broadcast once.
C17_Witness ==
    /\ Processed("Pause") /\ paused /\ loaded # None
    /\ step.calls = <<"pause">> /\ step.emitted = <<EvPausing>>

\* C18: close and open are last-writer-wins and idempotent.  Whatever closed
\* was, close(r) leaves it Some(r) and open leaves it None, and nothing else
\* changes it; the snapshot checks of add_track for a non-moderator are
\* refused with PlayerClosed and the reason closed holds whenever it is set,
\* and are never refused with PlayerClosed when it is not.
C18_CloseOpen ==
    [][/\ \A reason \in Reasons : Close(reason) => closed' = Some(reason)
       /\ Open => closed' = None
       /\ closed' # closed => reply'.call \in {"close", "open"}
       /\ (/\ reply'.call = "add_track" /\ reply'.stage = "check"
           /\ ~reply'.is_moderator
           /\ AddTrackCheck(reply'.client, reply'.user, reply'.track_id, FALSE)) =>
              IF closed # None
              THEN reply'.result = [ok |-> FALSE, err |-> "PlayerClosed", reason |-> closed[1]]
              ELSE reply'.result.ok \/ reply'.result.err # "PlayerClosed"]_vars

\* A non-moderator was refused with the reason of the close in force.
C18_Witness ==
    /\ reply.call = "add_track" /\ reply.stage = "check" /\ ~reply.is_moderator
    /\ reply.result = [ok |-> FALSE, err |-> "PlayerClosed", reason |-> Some("r2")]
    /\ closed = Some(Some("r2"))

C20_StartupTolerant ==
    /\ pc # "failed"
    /\ queue = Restore(SelectSeq(db, Resolves))

\* C21: when the loaded track ends while the engine is playing, with nothing
\* injected, sidelined or queued and a fallback pool that is not empty, the
\* engine loads one item of the pool with origin Fallback and broadcasts
\* Playing(Fallback, item) and nothing else: no Empty, and no stop of the
\* device.
C21_FallbackNotEmpty ==
    /\ step.kind = "finished" /\ Advanced
    /\ ~Adv.paused /\ ~Adv.inject /\ ~Adv.sidelined /\ ~Adv.queue
    /\ fallback_items # <<>>
    => /\ Adv.src = "Fallback"
       /\ loaded # None
       /\ loaded[1].origin = "Fallback"
       /\ \E i \in DOMAIN fallback_items : loaded[1].item = fallback_items[i]
       /\ step.emitted = <<EvPlaying(echo_current_song, "Fallback", loaded[1].item)>>
       /\ step.calls = <<"load", "play">>

\* A track ended on a playing engine with nothing else to play, and a
\* fallback track was loaded and announced.
C21_Witness ==
    /\ step.kind = "finished" /\ Advanced
    /\ ~Adv.paused /\ ~Adv.inject /\ ~Adv.sidelined /\ ~Adv.queue
    /\ loaded # None /\ loaded[1].origin = "Fallback"
    /\ step.emitted = <<EvPlaying(echo_current_song, "Fallback", loaded[1].item)>>

\* C22: a request accepted against an empty queue is answered position 0, and
\* when the engine, playing with nothing loaded, processes a Modified and
\* advances to the front of the queue, it broadcasts Modified first and then
\* Playing(Queue, item) for the item it loaded.
C22_EnqueueOrder ==
    [][/\ (/\ reply'.call = "add_track" /\ reply'.stage = "check"
           /\ AddTrackCheck(reply'.client, reply'.user, reply'.track_id, reply'.is_moderator)
           /\ queue = <<>> /\ reply'.result.ok) => reply'.result.len = 0
       /\ (/\ Processed("Modified") /\ Advanced
           /\ ~Adv.paused /\ ~Adv.loaded /\ Adv.src = "Queue"
           => /\ loaded # None /\ loaded[1].origin = "Queue"
              /\ step.emitted = <<EvModified,
                                  EvPlaying(echo_current_song, "Queue", loaded[1].item)>>)'
      ]_vars

\* C23: a request is answered "subscribers only" for the provider of the
\* track, with nothing enqueued and no request left in progress, exactly when
\* the global setting or the setting of the provider is on, the requester is
\* not a moderator and is not among the subscribers of the stream; in every
\* other case the request goes on to the snapshot checks of add_track.
C23_SubscriberGate ==
    [][reply'.call = "request" \/ (reply'.call = "add_track" /\ reply'.stage = "check") =>
          LET r == reply'.client
              user == reply'.user
              track_id == reply'.track_id
              is_moderator == reply'.is_moderator
          IN /\ \A settings \in Settings, is_subscriber \in BOOLEAN :
                   LET of_provider == IF Provider(track_id) = "Spotify"
                                      THEN settings.spotify_subscriber_only
                                      ELSE settings.youtube_subscriber_only
                       refused == /\ settings.subscriber_only \/ of_provider
                                  /\ ~is_moderator
                                  /\ ~is_subscriber
                   IN SubscriberGate(track_id, is_moderator, settings, is_subscriber) =
                          IF refused
                          THEN [ok |-> FALSE, err |-> "SubscribersOnly",
                                provider |-> Provider(track_id)]
                          ELSE [ok |-> TRUE]
             /\ reply'.call = "request" =>
                   /\ reply'.result = SubscriberGate(track_id, is_moderator, reply'.settings,
                                                     reply'.is_subscriber)
                   /\ ~reply'.result.ok
                   /\ UNCHANGED <<queue, db, commands, reqs>>
             /\ HandleRequest(r, user, track_id, is_moderator,
                              [subscriber_only |-> FALSE, spotify_subscriber_only |-> FALSE,
                               youtube_subscriber_only |-> FALSE], {}) =>
                   /\ reply'.call = "add_track"
                   /\ reply'.result = Admission(queue, closed, user, track_id, is_moderator)
      ]_vars

\* A YouTube request of a non-moderator was refused at the subscriber gate.
C23_Witness ==
    /\ reply.call = "request" /\ ~reply.is_moderator
    /\ reply.result = [ok |-> FALSE, err |-> "SubscribersOnly", provider |-> "YouTube"]

\* C24: a balance goes down only by the debit of the price of a request that
\* passed the checks; when the append of a request that was debited fails,
\* the queue, the records and the commands are left alone and the balance of
\* the requester goes back up by what was debited; and when it succeeds the
\* item is in the queue and the balances are left alone.
C24_RefundOnFailure ==
    [][/\ \A user \in Users :
             balance'[user] < balance[user] =>
                 \E r \in Clients :
                     /\ reqs[r].st = "checked" /\ reqs[r].user = user
                     /\ reqs'[r].st = "priced"
                     /\ reqs'[r].paid = balance[user] - balance'[user]
       /\ \A r \in Clients :
             reqs[r].st = "priced" /\ reqs'[r] # reqs[r] =>
                 LET user == reqs[r].user
                     item == Item(reqs[r].track_id, Some(user))
                 IN IF reqs'[r].st = "pushed"
                    THEN /\ queue' = Append(queue, item)
                         /\ balance' = balance
                    ELSE /\ reqs'[r] = Idle
                         /\ UNCHANGED <<queue, db, commands>>
                         /\ balance' = [balance EXCEPT ![user] = @ + reqs[r].paid]
                         /\ ~reply'.result.ok]_vars

\* The append of a request that had cost its requester everything failed, and
\* the requester owns the starting balance again.
C24_Witness ==
    /\ reply.call = "add_track" /\ reply.stage = "push"
    /\ ~reply.result.ok /\ reply.result.from = "push_back"
    /\ reply.result.paid = StartBalance
    /\ balance[reply.user] = StartBalance
    /\ \A r \in Clients : reqs[r] = Idle
    /\ queue = <<>>

\* C25: for promote and delete with a number n as the argument, n = 0 is
\* answered with a message and leaves the queue, the records, the loaded track
\* and the commands alone; n >= 1 within the queue swaps, or removes, the item
\* at the 0-based index n - 1 and returns it; and n beyond the end changes
\* nothing and returns None.
C25_OneBased ==
    [][reply'.call \in {"promote", "delete", "promote_song", "remove_at"} =>
         \A arg \in {word \in Args : ParseUsize(word).ok} :
             LET n == ParseUsize(arg).n
                 rejected == /\ reply'.call \in {"promote", "delete"}
                             /\ reply'.respond # ""
                             /\ UNCHANGED <<queue, db, loaded, current, commands>>
                 nothing == /\ reply'.result = None
                            /\ reply'.call \in {"promote_song", "remove_at"}
                            /\ UNCHANGED <<queue, db, loaded, current, commands>>
                 answered == reply'.call \in {"promote", "delete"} => reply'.arg = <<arg>>
             IN answered =>
                  /\ \A user \in Users :
                        reply'.call \in {"promote", "promote_song"} /\ ChatPromote(user, <<arg>>) =>
                            IF n = 0 THEN rejected
                            ELSE IF n > Len(queue) THEN nothing
                            ELSE /\ reply'.result = Some(queue[n])
                                 /\ Len(queue') = Len(queue)
                                 /\ queue'[1] = queue[n] /\ queue'[n] = queue[1]
                                 /\ \A i \in DOMAIN queue : i \notin {1, n} => queue'[i] = queue[i]
                  /\ \A user \in Users :
                        reply'.call \in {"delete", "remove_at"} /\ ChatDelete(user, <<arg>>) =>
                            IF n = 0 THEN rejected
                            ELSE IF n > Len(queue) THEN nothing
                            ELSE /\ reply'.result = Some(queue[n])
                                 /\ Len(queue') = Len(queue) - 1
                                 /\ \A i \in DOMAIN queue' :
                                       queue'[i] = IF i < n THEN queue[i] ELSE queue[i + 1]]_vars

\* The item at the second place of a queue of three was returned by a removal,
\* and the two others are left in their order.
C25_Witness ==
    /\ reply.call = "remove_at"
    /\ reply.result = Some(Item("B", Some("u2")))
    /\ queue = <<Item("A", Some("u1")), Item("C", Some("u1"))>>

\* C26: when the engine broadcasts while a reader is attached and the bus is
\* full, the oldest events make room: the bus then holds the most recent
\* events, the ones of this step last.
C26_DropOldest ==
    [][readers > 0 /\ Len(bus) = BusCap /\ step' # step /\ step'.emitted # <<>> =>
         LET all == bus \o step'.emitted
         IN bus' = SubSeq(all, Len(all) - BusCap + 1, Len(all))]_vars

\* C27: what Words has yielded so far are the first maximal runs of characters
\* that are not whitespace, from left to right, each with the number of bytes
\* of the text before its first character; and when the iteration is over
\* there is one pair for every run: none for a text without such a character,
\* and never an empty word.
C27_WordsRuns ==
    LET input == words_iter.input
        yielded == words_iter.yielded
        Runs == {run \in (DOMAIN input) \X (DOMAIN input) :
                    /\ run[1] <= run[2]
                    /\ \A k \in run[1] .. run[2] : ~IsWhitespace(input[k])
                    /\ run[1] = 1 \/ IsWhitespace(input[run[1] - 1])
                    /\ run[2] = Len(input) \/ IsWhitespace(input[run[2] + 1])}
        Pair(run) == [offset |-> StrLen(SubSeq(input, 1, run[1] - 1)),
                      word |-> SubSeq(input, run[1], run[2])]
    IN /\ \A k \in DOMAIN yielded :
             \E run \in Runs :
                 /\ yielded[k] = Pair(run)
                 /\ Cardinality({before \in Runs : before[1] < run[1]}) = k - 1
       /\ words_iter.done => Len(yielded) = Cardinality(Runs)

\* A text that starts with a space held two words of one character, the first
\* of two bytes, and both were yielded.
C27_Witness ==
    /\ words_iter.done
    /\ words_iter.input = <<" ", "U+00E9", "U+00A0", "a">>
    /\ words_iter.yielded = <<[offset |-> 1, word |-> <<"U+00E9">>],
                              [offset |-> 5, word |-> <<"a">>]>>

\* C28: the sidelined deque changes only by an injection putting the loaded
\* track at its back, or by the engine taking the entry at its front and
\* loading the track of that entry with its origin; and while an entry is
\* sidelined, every advance of the engine loads an injected track or the one
\* of the front entry.  So A, sidelined before T1, is resumed before T1, and no
\* entry leaves the deque without being resumed.
C28_SidelinedFifo ==
    [][LET resumed == /\ sidelined # <<>>
                      /\ sidelined' = Tail(sidelined)
                      /\ loaded' # None
                      /\ loaded'[1].item = Head(sidelined).loaded.item
                      /\ loaded'[1].origin = Head(sidelined).loaded.origin
                      /\ (Advanced /\ Adv.src = "Sidelined")'
           injected == /\ (Advanced /\ Adv.src = "Injected")'
                       /\ loaded' # None /\ loaded'[1].origin = "Injected"
                       /\ IF loaded # None
                          THEN /\ Len(sidelined') = Len(sidelined) + 1
                               /\ SubSeq(sidelined', 1, Len(sidelined)) = sidelined
                               /\ sidelined'[Len(sidelined')].loaded = loaded[1]
                          ELSE sidelined' = sidelined
       IN /\ sidelined' # sidelined => resumed \/ injected
          /\ sidelined # <<>> /\ step' # step /\ Advanced' => resumed \/ injected]_vars

\* A, sidelined under T1 which was sidelined under T2, is the track resumed
\* when T2 has finished, and T1 is still waiting.
C28_Witness ==
    /\ step.kind = "finished" /\ Advanced /\ Adv.src = "Sidelined"
    /\ loaded # None /\ loaded[1].item.track_id = "A" /\ loaded[1].origin = "Queue"
    /\ Len(sidelined) = 1 /\ sidelined[1].loaded.item.track_id = "T1"
    /\ sidelined[1].loaded.origin = "Injected"

\* C29: a Skip never adds an entry to the sidelined deque and never puts the
\* track that was loaded back in the queue or in the deque; it advances by the
\* priority order whether the engine is paused or not: it resumes the front
\* sidelined entry when there is one, and with nothing sidelined, an empty
\* queue and an empty pool it ends in the empty state, with nothing loaded,
\* Empty broadcast and the device stopped.
C29_SkipDiscards ==
    [][step' # step /\ Processed("Skip")' =>
         /\ Advanced'
         /\ sidelined' = IF sidelined # <<>> THEN Tail(sidelined) ELSE sidelined
         /\ queue' = queue
         /\ sidelined # <<>> =>
               /\ Adv'.src = "Sidelined"
               /\ loaded' # None /\ loaded'[1].item = Head(sidelined).loaded.item
         /\ sidelined = <<>> /\ queue # <<>> => Adv'.src = "Queue"
         /\ sidelined = <<>> /\ queue = <<>> /\ fallback_items = <<>> =>
               /\ pc' # "panicked"
               /\ loaded' = None
               /\ step'.emitted = <<EvEmpty>>
               /\ step'.calls = <<"stop">>]_vars

\* C30: the engine processing Modified advances exactly when it is not paused
\* and nothing is loaded, and broadcasts one Modified event in every case; with
\* a track loaded or the engine paused it leaves the loaded track, paused, the
\* sidelined deque and the device as they are.
C30_ModifiedFrame ==
    [][step' # step /\ Processed("Modified")' =>
         /\ Advanced' <=> (~paused /\ loaded = None)
         /\ Cardinality({i \in DOMAIN step'.emitted : step'.emitted[i] = EvModified}) = 1
         /\ paused \/ loaded # None =>
               /\ UNCHANGED <<loaded, paused, sidelined, player>>
               /\ step'.calls = <<>>]_vars

\* C31: the engine processing Play or Toggle while paused with a track loaded
\* sets paused to false, asks the device to play and nothing else, broadcasts
\* Playing for the loaded track, and leaves the loaded track, the sidelined
\* deque, the queue and the pop task alone; with nothing loaded it advances.
\* Toggle while not paused does what Pause does, and Toggle does in every
\* state what the command it stands for does.
C31_PlayResumes ==
    [][pc = "commands" /\ pc' # pc /\ commands # <<>>
         /\ Head(commands).kind \in {"Play", "Toggle"} =>
         /\ paused /\ loaded # None =>
               /\ ~paused'
               /\ step'.calls = <<"play">>
               /\ step'.emitted = <<EvPlaying(echo_current_song, loaded[1].origin,
                                              loaded[1].item)>>
               /\ ~Advanced' /\ step'.pops = 0
               /\ UNCHANGED <<loaded, sidelined, queue, pop_front, inject>>
         /\ paused /\ loaded = None => Advanced' /\ (pc' # "panicked" => ~paused')
         /\ ~paused /\ Head(commands).kind = "Play" =>
               /\ step'.calls = <<>> /\ step'.emitted = <<>> /\ ~Advanced'
               /\ UNCHANGED <<paused, loaded, sidelined, queue, pop_front, player>>
         /\ ~paused /\ Head(commands).kind = "Toggle" =>
               /\ paused'
               /\ step'.calls = <<"pause">>
               /\ step'.emitted = <<EvPausing>>
               /\ ~Advanced'
               /\ UNCHANGED <<loaded, sidelined, queue, pop_front>>
         /\ Head(commands).kind = "Toggle" =>
               \A n \in RngChoices, keep \in KeepChoices :
                   Command(Eng, queue, CmdToggle, n, keep)
                       = Command(Eng, queue, IF paused THEN CmdPlay ELSE CmdPause, n, keep)]_vars

\* A Toggle was processed with the engine paused and a track loaded, and the
\* track is playing.
C31_Witness ==
    /\ step.kind = "command" /\ step.command = Some(CmdToggle)
    /\ ~paused /\ loaded # None
    /\ step.calls = <<"play">> /\ ~Advanced
    /\ step.emitted = <<EvPlaying(echo_current_song, loaded[1].origin, loaded[1].item)>>

\* C32: the command channel loses nothing and keeps the order: it changes only
\* by a command sent at its end or by the engine taking its first command,
\* which is the one it processes.  An iteration of poll examines the pending
\* pop, the load completion, the device events and the commands in that
\* order, and every input it finds ready keeps the engine from returning
\* NotReady at the end of that iteration: the engine parks at the end of an
\* iteration only when none was ready.
C32_NoStarvation ==
    [][/\ commands' # commands =>
             \/ /\ Len(commands') = Len(commands) + 1
                /\ SubSeq(commands', 1, Len(commands)) = commands
             \/ /\ pc = "commands" /\ commands # <<>>
                /\ commands' = Tail(commands)
                /\ step'.kind = "command" /\ step'.command = Some(Head(commands))
       /\ pc' # pc =>
             /\ <<pc, pc'>> \in {<<"parked", "pop">>, <<"pop", "parked">>, <<"pop", "loaded">>,
                                 <<"loaded", "events">>, <<"events", "commands">>,
                                 <<"commands", "pop">>, <<"commands", "parked">>,
                                 <<"loaded", "panicked">>, <<"commands", "panicked">>}
             /\ pc = "pop" /\ pc' = "parked" => pop_front # None /\ pop_front[1].state = "pending"
             /\ pc = "pop" /\ pop_front # None /\ pop_front[1].state = "done" => ~not_ready'
             /\ pc = "loaded" /\ loaded # None /\ loaded[1].future # "pending" => ~not_ready'
             /\ pc = "events" /\ events > 0 => ~not_ready'
             /\ pc = "commands" /\ commands # <<>> => ~not_ready'
             /\ pc = "commands" /\ pc' = "parked" => not_ready /\ commands = <<>>
             /\ pc = "commands" /\ pc' = "pop" => ~not_ready']_vars

\* C33: a pop task takes the front item off the queue and completes whether
\* the record was removed or not, and the engine goes on from a completed
\* task; remove_at, remove_last, remove_last_by_user and purge whose write
\* fails take their items off the queue all the same, return them, leave the
\* records as they are and send Modified.
C33_BestEffort ==
    [][/\ pop_front # None /\ pop_front[1].state = "pending" /\ pop_front' # pop_front
             /\ pc' = pc /\ queue # <<>> =>
             /\ queue' = Tail(queue)
             /\ db' = db \/ db' = RemoveSong(db, Head(queue).track_id)
             /\ pop_front' = Some([pop_front[1] EXCEPT !.state = "done"])
       /\ pc = "pop" /\ pc' # pc /\ pop_front # None /\ pop_front[1].state = "done" =>
             pc' = "loaded" /\ pop_front' = None /\ UNCHANGED <<queue, db>>
       /\ reply'.call \in {"remove_at", "remove_last", "remove_last_by_user", "purge"}
             /\ queue # <<>> /\ pc' = pc =>
             /\ \A n \in 0 .. MaxQueue :
                   RemoveAtLog(n, FALSE) /\ n < Len(queue) =>
                       /\ queue' = Remove(queue, n) /\ db' = db
                       /\ reply'.result = Some(queue[n + 1])
                       /\ commands' = Append(commands, CmdModified)
             /\ RemoveLastLog(FALSE) =>
                       /\ queue' = SubSeq(queue, 1, Len(queue) - 1) /\ db' = db
                       /\ reply'.result = Some(queue[Len(queue)])
                       /\ commands' = Append(commands, CmdModified)
             /\ \A user \in Users :
                   RemoveLastByUserLog(user, FALSE) /\ reply'.result # None =>
                       /\ Len(queue') = Len(queue) - 1 /\ db' = db
                       /\ reply'.result[1].user = Some(user)
                       /\ commands' = Append(commands, CmdModified)
             /\ PurgeLog(FALSE) =>
                       /\ queue' = <<>> /\ db' = db
                       /\ reply'.result = queue
                       /\ commands' = Append(commands, CmdModified)]_vars

\* The record of A is still there, A has left the queue, and the engine has
\* gone on to load B from the queue when A finished.
C33_Witness ==
    /\ \E i \in DOMAIN db : db[i].track_id = "A"
    /\ \A i \in DOMAIN queue : queue[i].track_id # "A"
    /\ step.kind = "finished" /\ Advanced /\ Adv.src = "Queue"
    /\ loaded # None /\ loaded[1].item.track_id = "B"

\* C34: when add_track appends its item, the position it is going to return,
\* the length of the queue at the snapshot checks, is the index of the item
\* in the queue.
C34_PositionExact ==
    [][\A r \in Clients :
          reqs[r].st = "checked" /\ reqs'[r].st = "pushed" =>
              /\ reqs'[r].len + 1 \in DOMAIN queue'
              /\ queue'[reqs'[r].len + 1] = Item(reqs[r].track_id, Some(reqs[r].user))
              /\ reqs'[r].len + 1 = Len(queue')]_vars

\* C35: with requests of users who are not moderators only, no user has more
\* than max_songs_per_user items in the queue, and the queue never holds more
\* than max_queue_length + 1 items.
C35_QuotaBound ==
    /\ \A user \in Users :
          Cardinality({i \in DOMAIN queue : queue[i].user = Some(user)}) <= max_songs_per_user
    /\ Len(queue) <= max_queue_length + 1

\* C36: when the engine advances with nothing injected, nothing sidelined and
\* an empty queue, while playing or with a track loaded, and the fallback pool
\* is empty, it ends in the empty state: nothing loaded, no current track,
\* paused, Empty broadcast, the device stopped, and the engine still running.
C36_EmptyPoolDegrades ==
    /\ Advanced
    /\ ~Adv.inject /\ ~Adv.sidelined /\ ~Adv.queue
    /\ ~Adv.paused \/ Adv.loaded
    /\ fallback_items = <<>>
    => /\ pc # "panicked"
       /\ loaded = None /\ current = None
       /\ paused
       /\ \E i \in DOMAIN step.emitted : step.emitted[i] = EvEmpty
       /\ \E i \in DOMAIN step.calls : step.calls[i] = "stop"

\* C37: list() never holds the item loaded from the queue both as the current
\* track and as a queue entry, and length() counts the items of the queue
\* that are not loaded plus one if a track is loaded, also while the pop
\* scheduled by the advance has not run.
C37_ReportedOnce ==
    LET popping == /\ pop_front # None
                   /\ pop_front[1].state = "pending"
                   /\ Front(queue) = Some(pop_front[1].item)
        unloaded == IF popping THEN Tail(queue) ELSE queue
    IN /\ current # None /\ loaded # None /\ loaded[1].origin = "Queue" =>
              \A i \in 2 .. Len(List) : List[i] # current[1]
       /\ Length[1] = Len(unloaded) + (IF loaded # None THEN 1 ELSE 0)

\* C38: whenever the engine is not paused and the queue or the sidelined deque
\* holds an entry, then, unless it is paused or both are emptied first, a track
\* is eventually loaded; no command has to arrive for it.
C38_PlaybackProgress ==
    (~paused /\ (queue # <<>> \/ sidelined # <<>>))
        ~> (loaded # None \/ paused \/ (queue = <<>> /\ sidelined = <<>>))

\* C39: an engine step that broadcasts Empty leaves the engine paused with
\* nothing loaded; a paused engine stops being paused only by processing a
\* Play or a Toggle; and a Modified processed while the engine is paused loads
\* nothing, makes no advance and leaves the device alone.
C39_EmptyImpliesPaused ==
    [][/\ (\E i \in DOMAIN step'.emitted : step'.emitted[i] = EvEmpty) =>
              paused' /\ loaded' = None /\ current' = None
       /\ paused /\ ~paused' =>
              /\ pc = "commands" /\ pc' # pc /\ commands # <<>>
              /\ Head(commands).kind \in {"Play", "Toggle"}
       /\ /\ pc = "commands" /\ pc' # pc /\ commands # <<>>
          /\ Head(commands).kind = "Modified"
          /\ paused
          => /\ paused'
             /\ loaded' = loaded /\ current' = current
             /\ ~Advanced'
             /\ player' = player
             /\ step'.emitted = <<EvModified>>]_vars

\* The engine entered the empty state, which alone stops the device, then a
\* request was accepted, and the engine processed its Modified and stayed
\* paused with nothing loaded, the requested item waiting in the queue.
C39_Witness ==
    /\ Processed("Modified")
    /\ paused /\ loaded = None /\ ~Advanced
    /\ queue # <<>>
    /\ player.state = "stopped"
    /\ step.emitted = <<EvModified>>

\* C40: a sidelined track is resumed at the offset it was loaded at plus the
\* time it played, the intervals during which the engine was paused not
\* counted; so the resume offset never exceeds what was played of the track.
C40_ResumeOffsetPlayed ==
    Advanced /\ Adv.src = "Sidelined" =>
        /\ Adv.offset = Adv.from + Adv.played
        /\ Adv.offset <= Adv.from + Adv.played

============================================================================
